---- MODULE Spec2Model ----
(***************************************************************************)
(* Warehouse upload scheduler of rudder-server (warehouse/warehouse.go):   *)
(* one router (HandleT) of one destination type, its config subscriber,    *)
(* job creator (mainLoop / createJobs), job allocator                      *)
(* (runUploadJobAllocator / getUploadsToProcess), worker pool (initWorker) *)
(* and boot-time recovery (Setup), over the wh_uploads and                 *)
(* wh_staging_files tables.                                                *)
(***************************************************************************)
EXTENDS Integers, Sequences, FiniteSets, TLC

\* ------------------------------------------------------------------ bounds
MaxFiles == 3          \* rows ever inserted into wh_staging_files
MaxJobId == 4          \* serial ids handed out by wh_uploads
MaxTime == 3           \* clock ticks (seconds) the model lets pass
MaxConcurrent == 2     \* largest Warehouse.<type>.maxConcurrentUploadJobs tried
MaxJitter == 1         \* largest sync jitter, seconds (rand.Intn(15) in the program)
MaxBatch == 2          \* largest Warehouse.stagingFilesBatchSize tried
MaxInFlight == 2       \* longest in-progress list the model lets an identifier reach
MaxWorkers == 2        \* largest Warehouse.<type>.noOfWorkers tried
MaxCalls == 2          \* longest run of Enable (or Disable) calls in a row
MaxDests == 3          \* most destinations in one config snapshot

\* ------------------------------------------------- configuration (scaled)
uploadFreqInS == 2           \* Warehouse.uploadFreqInS
TriggeredPriority == 50      \* initUpload: priority of a manually triggered upload
DefaultPriority == 100       \* COALESCE(metadata->>'priority', '100')
ChannelCapacity == 1         \* buffer of a worker channel (1000 in the program)

\* ------------------------------------------------------------ the universe
\* Two connections (source, destination) of the router's destination type,
\* both on destination d1, each source in its own workspace.
Conns == {"c1", "c2"}
SourceOf(c) == IF c = "c1" THEN "s1" ELSE "s2"
DestOf(c) == "d1"
WorkspaceOf(c) == IF c = "c1" THEN "w1" ELSE "w2"
Workspaces == {WorkspaceOf(c) : c \in Conns}
Namespaces == {"n1", "n2"}
NoNamespace == "-"     \* the connection is not in the registry

\* Destination types: three of warehouseutils.WarehouseDestinations and one that is not
\* a warehouse.
WarehouseDestinations == {"RS", "BQ", "SNOWFLAKE"}
DestinationTypes == WarehouseDestinations \cup {"WEBHOOK"}

\* The tasks Setup starts in its group.
Tasks == {"tenantManager", "backendConfigSubscriber", "runUploadJobAllocator",
          "mainLoop", "uploadStatusTrack"}

Waiting == "waiting"
ExportingData == "exporting_data"               \* getInProgressState(ExportedData)
ExportingDataFailed == "exporting_data_failed"  \* getFailedState(ExportedData)
ExportedData == "exported_data"
Aborted == "aborted"
TerminalStatuses == {ExportedData, Aborted}

NoError == "{}"                                  \* the error column of a new row
UnableToFindSource == "unable to find source"    \* the allocator's abort reason

VARIABLES
    \* process and router (HandleT) state
    phase,                 \* "stopped" | "recovering" | "running": position in Setup
    isEnabled,             \* wh.isEnabled
    initialConfigFetched,  \* wh.initialConfigFetched
    multiSource,           \* wh.allowMultipleSourcesForJobsPickup
    maxConcurrentUploadJobs, \* wh.maxConcurrentUploadJobs
    noOfWorkers,           \* wh.noOfWorkers
    stagingFilesBatchSize, \* Warehouse.stagingFilesBatchSize
    warehouses,            \* wh.warehouses: connection -> namespace (or NoNamespace)
    workerChannelMap,      \* wh.workerChannelMap: identifier -> buffered jobs
    channels,              \* identifiers that have a channel and a worker pool
    inProgressMap,         \* wh.inProgressMap: identifier -> job ids
    activeWorkerCount,     \* wh.activeWorkerCount
    running,               \* identifier -> jobs its workers are running
    allocPc,               \* allocator: "idle" | "send" | "sending" | "panicked"
    uploadJobsToProcess,   \* allocator's claimed jobs of the current tick
    creator,               \* per connection: position of its createJobs goroutine
    \* process-wide maps
    triggerUploadsMap,     \* connections with a manual trigger
    lastProcessedMarkerMap,\* connection -> unix time, -1 when absent
    inRecoveryMap,         \* interrupted destination ids
    \* the control database
    uploads,               \* wh_uploads: id -> row
    nextJobId,             \* wh_uploads id sequence
    stagingFiles,          \* wh_staging_files: id (index) -> row
    \* environment
    degradedWorkspaces,    \* tenantManager.DegradedWorkspaces()
    now,                   \* wall clock, seconds
    \* history
    lastCall,              \* <<"Enable" | "Disable" | "none", n>>: the last step was the n-th
                           \* call in a row of Enable or of Disable
    allocTicked,           \* the allocator has ticked since the last Setup
    lastCreatedAt,         \* connection -> time of its last pass that inserted jobs, -1 if none
    passesInRun,           \* connection -> passes that inserted jobs since the process started
    initWorkerCalls,       \* identifier -> initWorker calls whose channel was stored for it
    crashRecovered,        \* destinations whose CrashRecover has succeeded in this run
    \* shutdown and locks
    ctxDone,               \* the context of Setup's tasks is cancelled
    exited,                \* the tasks started by Setup that have returned
    closed,                \* identifiers whose channel is closed
    terminated,            \* identifier -> worker goroutines that have returned
    shutdownPc,            \* Shutdown(): "idle" | "waiting" | "returned"
    workerChannelMapLock,  \* holder of wh.workerChannelMapLock: "" | "allocator"
    inProgressMapLock,     \* holder of wh.inProgressMapLock: NoHolder | <<identifier, job>>
    configSubscriberLock,  \* NoHolder, or <<snapshot, n>>: the subscriber holds the lock and
                           \* has appended n - 1 connections of the snapshot
    trackedWarehouses,     \* the wh.warehouses uploadStatusTrack last ranged over (history)
    \* the router supervisor (monitorDestRouters)
    dstToWhRouter,         \* destination type -> "none" | "enabled" | "disabled"
    setupCalls,            \* destination type -> routers constructed and Setup (history)
    lastSnapshot,          \* destination types of the last snapshot processed (history)
    destType               \* wh.destType: the type the supervisor set this router up for

routerVars == <<initialConfigFetched, multiSource, maxConcurrentUploadJobs, noOfWorkers, stagingFilesBatchSize, warehouses,
                workerChannelMap, channels, inProgressMap, activeWorkerCount, running,
                allocPc, uploadJobsToProcess, creator>>
mapVars == <<triggerUploadsMap, lastProcessedMarkerMap, inRecoveryMap>>
dbVars == <<uploads, nextJobId, stagingFiles>>
envVars == <<degradedWorkspaces, now>>
histVars == <<allocTicked, lastCreatedAt, passesInRun, initWorkerCalls, crashRecovered>>
taskVars == <<ctxDone, exited, closed, terminated, shutdownPc, workerChannelMapLock,
             inProgressMapLock, configSubscriberLock, trackedWarehouses>>
supervisorVars == <<dstToWhRouter, setupCalls, lastSnapshot, destType>>
vars == <<phase, isEnabled, routerVars, mapVars, dbVars, envVars, histVars, lastCall,
          taskVars, supervisorVars>>

\* ------------------------------------------------------------- identifiers
\* workerIdentifier: "destID_namespace", or "sourceID_destID_namespace" in
\* multi-source mode; the parts are kept apart as a tuple, "" for no source.
workerIdentifier(c, ns) ==
    <<IF multiSource THEN SourceOf(c) ELSE "", DestOf(c), ns>>

\* The selection query's partition key of a row:
\* destination_id || '_' || namespace, with source_id in front in multi-source mode.
partitionIdentifier(row) ==
    <<IF multiSource THEN SourceOf(row.conn) ELSE "", DestOf(row.conn), row.namespace>>

Identifiers ==
    {<<s, DestOf(c), n>> : s \in {SourceOf(d) : d \in Conns} \cup {""},
                           c \in Conns, n \in Namespaces}

\* COALESCE(metadata->>'priority', '100')::int ; 0 stands for "no priority key"
Priority(row) == IF row.priority = 0 THEN DefaultPriority ELSE row.priority

Max(S) == CHOOSE x \in S : \A y \in S : y <= x

\* ------------------------------------------------------------ construction
NoCall == <<"none", 0>>

\* wh.inProgressMapLock is free
NoHolder == <<>>
Called(name) == <<name, IF lastCall[1] = name THEN lastCall[2] + 1 ELSE 1>>

NoJob == [pc |-> "done", ns |-> NoNamespace, priority |-> 0]

\* The in-memory state of a freshly started process (loadConfig, HandleT{}).
MemoryInit ==
    /\ isEnabled' = FALSE
    /\ initialConfigFetched' = FALSE
    /\ warehouses' = [c \in Conns |-> NoNamespace]
    /\ workerChannelMap' = [k \in Identifiers |-> <<>>]
    /\ channels' = {}
    /\ inProgressMap' = [k \in Identifiers |-> <<>>]
    /\ activeWorkerCount' = 0
    /\ running' = [k \in Identifiers |-> <<>>]
    /\ allocPc' = "idle"
    /\ uploadJobsToProcess' = <<>>
    /\ creator' = [c \in Conns |-> NoJob]
    /\ triggerUploadsMap' = {}
    /\ lastProcessedMarkerMap' = [c \in Conns |-> -1]
    /\ inRecoveryMap' = {}
    /\ allocTicked' = FALSE
    /\ passesInRun' = [c \in Conns |-> 0]
    /\ initWorkerCalls' = [k \in Identifiers |-> 0]
    /\ crashRecovered' = {}
    /\ ctxDone' = FALSE
    /\ exited' = {}
    /\ closed' = {}
    /\ terminated' = [k \in Identifiers |-> 0]
    /\ shutdownPc' = "idle"
    /\ workerChannelMapLock' = ""
    /\ inProgressMapLock' = NoHolder
    /\ configSubscriberLock' = NoHolder
    /\ trackedWarehouses' = [c \in Conns |-> NoNamespace]
    /\ dstToWhRouter' = [t \in WarehouseDestinations |-> "none"]
    /\ setupCalls' = [t \in WarehouseDestinations |-> 0]
    /\ lastSnapshot' = <<>>

\* The state at process start, before Setup, with an empty database; the router's
\* type and the configuration are drawn from the given sets.
InitWithType(types, multis, concurrents, batches, workers) ==
    /\ destType \in types
    /\ phase = "stopped"
    /\ isEnabled = FALSE
    /\ initialConfigFetched = FALSE
    /\ multiSource \in multis
    /\ maxConcurrentUploadJobs \in concurrents
    /\ noOfWorkers \in workers
    /\ stagingFilesBatchSize \in batches
    /\ warehouses = [c \in Conns |-> NoNamespace]
    /\ workerChannelMap = [k \in Identifiers |-> <<>>]
    /\ channels = {}
    /\ inProgressMap = [k \in Identifiers |-> <<>>]
    /\ activeWorkerCount = 0
    /\ running = [k \in Identifiers |-> <<>>]
    /\ allocPc = "idle"
    /\ uploadJobsToProcess = <<>>
    /\ creator = [c \in Conns |-> NoJob]
    /\ triggerUploadsMap = {}
    /\ lastProcessedMarkerMap = [c \in Conns |-> -1]
    /\ inRecoveryMap = {}
    /\ uploads = <<>>
    /\ nextJobId = 1
    /\ stagingFiles = <<>>
    /\ degradedWorkspaces = {}
    /\ now = 0
    /\ lastCall = NoCall
    /\ allocTicked = FALSE
    /\ lastCreatedAt = [c \in Conns |-> -1]
    /\ passesInRun = [c \in Conns |-> 0]
    /\ initWorkerCalls = [k \in Identifiers |-> 0]
    /\ crashRecovered = {}
    /\ ctxDone = FALSE
    /\ exited = {}
    /\ closed = {}
    /\ terminated = [k \in Identifiers |-> 0]
    /\ shutdownPc = "idle"
    /\ workerChannelMapLock = ""
    /\ inProgressMapLock = NoHolder
    /\ configSubscriberLock = NoHolder
    /\ trackedWarehouses = [c \in Conns |-> NoNamespace]
    /\ dstToWhRouter = [t \in WarehouseDestinations |-> "none"]
    /\ setupCalls = [t \in WarehouseDestinations |-> 0]
    /\ lastSnapshot = <<>>

\* The same for a router of type RS.
InitWith(multis, concurrents, batches, workers) ==
    InitWithType({"RS"}, multis, concurrents, batches, workers)

\* --------------------------------------------------- Setup and process stop
\* The types of loadConfig's crashRecoverWarehouses among the types of the model.
crashRecoverWarehouses == {"RS"}

setInterruptedDestinations_AfterReset(rows) ==
    LET cleared == [i \in DOMAIN rows |-> [rows[i] EXCEPT !.in_progress = FALSE]]
    IN IF destType \notin crashRecoverWarehouses THEN {}
       ELSE {DestOf(cleared[i].conn) : i \in {j \in DOMAIN cleared :
               /\ cleared[j].in_progress
               /\ cleared[j].status \in {ExportingData, ExportingDataFailed}}}

\* setInterruptedDestinations: nothing for a router whose type is not one of
\* crashRecoverWarehouses, otherwise the destinations of rows with in_progress = true
\* and status exporting_data or exporting_data_failed.
setInterruptedDestinations(rows) ==
    IF destType \notin crashRecoverWarehouses THEN {}
    ELSE {DestOf(rows[i].conn) : i \in {j \in DOMAIN rows :
            /\ rows[j].in_progress
            /\ rows[j].status \in {ExportingData, ExportingDataFailed}}}

resetInProgressJobs_Noop(rows) == rows

\* resetInProgressJobs: UPDATE wh_uploads SET in_progress = false WHERE in_progress
resetInProgressJobs(rows) ==
    [i \in DOMAIN rows |-> [rows[i] EXCEPT !.in_progress = FALSE]]

\* Setup, first half: wh.setInterruptedDestinations()
SetupInterrupted ==
    /\ phase = "stopped"
    /\ phase' = "recovering"
    /\ inRecoveryMap' = inRecoveryMap \cup setInterruptedDestinations(uploads)
    /\ lastCall' = NoCall
    /\ UNCHANGED <<isEnabled, routerVars, triggerUploadsMap, lastProcessedMarkerMap,
                   dbVars, envVars, histVars>>
    /\ UNCHANGED <<taskVars, supervisorVars>>

\* Setup, second half: resetInProgressJobs(), Enable(), the maps, and the start of
\* the subscriber, allocator, creator and tracker tasks.
SetupReset ==
    /\ phase = "recovering"
    /\ phase' = "running"
    /\ uploads' = resetInProgressJobs(uploads)
    /\ isEnabled' = TRUE
    /\ workerChannelMap' = [k \in Identifiers |-> <<>>]
    /\ channels' = {}
    /\ inProgressMap' = [k \in Identifiers |-> <<>>]
    /\ allocTicked' = FALSE
    /\ lastCall' = NoCall
    /\ UNCHANGED <<initialConfigFetched, multiSource, stagingFilesBatchSize, maxConcurrentUploadJobs, noOfWorkers, warehouses,
                   activeWorkerCount, running, allocPc, uploadJobsToProcess, creator,
                   mapVars, nextJobId, stagingFiles, envVars, lastCreatedAt, passesInRun,
                   initWorkerCalls, crashRecovered>>
    /\ UNCHANGED <<taskVars, supervisorVars>>

\* The process stops at an arbitrary point (a crash or a kill): every goroutine and
\* every in-memory map is gone, the database stays as it is.
Crash ==
    /\ phase = "running"
    /\ phase' = "stopped"
    /\ MemoryInit
    /\ lastCall' = NoCall
    /\ UNCHANGED <<multiSource, stagingFilesBatchSize, maxConcurrentUploadJobs, noOfWorkers,
                   dbVars, envVars, lastCreatedAt, destType>>

\* ------------------------------------------------------------- environment
\* A producer records a staging file for a connection (ids are serial).
AddStagingFile(c, urs) ==
    /\ Len(stagingFiles) < MaxFiles
    /\ stagingFiles' = Append(stagingFiles, [conn |-> c, useRudderStorage |-> urs])
    /\ lastCall' = NoCall
    /\ UNCHANGED <<phase, isEnabled, routerVars, mapVars, uploads, nextJobId, envVars, histVars>>
    /\ UNCHANGED <<taskVars, supervisorVars>>

\* The degraded-workspace oracle changes its answer.
SetDegraded(ws) ==
    /\ degradedWorkspaces' = ws
    /\ ws # degradedWorkspaces
    /\ lastCall' = NoCall
    /\ UNCHANGED <<phase, isEnabled, routerVars, mapVars, dbVars, now, histVars>>
    /\ UNCHANGED <<taskVars, supervisorVars>>

Tick ==
    /\ now < MaxTime
    /\ now' = now + 1
    /\ lastCall' = NoCall
    /\ UNCHANGED <<phase, isEnabled, routerVars, mapVars, dbVars, degradedWorkspaces, histVars>>
    /\ UNCHANGED <<taskVars, supervisorVars>>

Enable_Toggle ==
    /\ phase = "running"
    /\ isEnabled' = ~isEnabled
    /\ lastCall[1] = "Enable" => lastCall[2] < MaxCalls
    /\ lastCall' = Called("Enable")
    /\ UNCHANGED <<phase, routerVars, mapVars, dbVars, envVars, histVars>>
    /\ UNCHANGED <<taskVars, supervisorVars>>

\* Enable(), called by the supervisor for a type present in a snapshot
Enable ==
    /\ phase = "running"
    /\ isEnabled' = TRUE
    /\ lastCall[1] = "Enable" => lastCall[2] < MaxCalls
    /\ lastCall' = Called("Enable")
    /\ UNCHANGED <<phase, routerVars, mapVars, dbVars, envVars, histVars>>
    /\ UNCHANGED <<taskVars, supervisorVars>>

\* Disable(), called by the supervisor for a type absent from a snapshot
Disable ==
    /\ phase = "running"
    /\ isEnabled' = FALSE
    /\ lastCall[1] = "Disable" => lastCall[2] < MaxCalls
    /\ lastCall' = Called("Disable")
    /\ UNCHANGED <<phase, routerVars, mapVars, dbVars, envVars, histVars>>
    /\ UNCHANGED <<taskVars, supervisorVars>>

\* triggerUpload, from the trigger-upload handler, for a connection of connectionsMap
TriggerUpload(c) ==
    /\ phase = "running"
    /\ warehouses[c] # NoNamespace
    /\ c \notin triggerUploadsMap
    /\ triggerUploadsMap' = triggerUploadsMap \cup {c}
    /\ lastCall' = NoCall
    /\ UNCHANGED <<phase, isEnabled, routerVars, lastProcessedMarkerMap, inRecoveryMap,
                   dbVars, envVars, histVars>>
    /\ UNCHANGED <<taskVars, supervisorVars>>

\* ------------------------------------------------------- config subscriber
\* The connections of a snapshot, in the order the subscriber's loop meets them.
ConnList == <<"c1", "c2">>

SnapshotConns(snapshot) ==
    LET F[k \in 0..Len(ConnList)] ==
            IF k = 0 THEN <<>>
            ELSE IF snapshot[ConnList[k]] # NoNamespace
                 THEN Append(F[k - 1], ConnList[k]) ELSE F[k - 1]
    IN F[Len(ConnList)]

RECURSIVE initWorkers_Always(_, _, _)
initWorkers_Always(st, snapshot, conns) ==
    IF conns = <<>> THEN st
    ELSE LET workerName == workerIdentifier(Head(conns), snapshot[Head(conns)])
         IN initWorkers_Always(
                [channels |-> st.channels \cup {workerName},
                 calls |-> [st.calls EXCEPT ![workerName] = @ + 1]],
                snapshot, Tail(conns))

\* The subscriber's loop over the connections of a snapshot: an identifier that has
\* no channel in wh.workerChannelMap gets one from initWorker, with its pool of
\* workers; an identifier that has one keeps it.
RECURSIVE initWorkers(_, _, _)
initWorkers(st, snapshot, conns) ==
    IF conns = <<>> THEN st
    ELSE LET workerName == workerIdentifier(Head(conns), snapshot[Head(conns)])
         IN initWorkers(
                IF workerName \in st.channels THEN st
                ELSE [channels |-> st.channels \cup {workerName},
                      calls |-> [st.calls EXCEPT ![workerName] = @ + 1]],
                snapshot, Tail(conns))

\* backendConfigSubscriber, one snapshot: wh.warehouses is rebuilt, a channel and a
\* worker pool is made for every identifier that has none, initialConfigFetched is set.
BackendConfigSubscriber(snapshot) ==
    /\ phase = "running"
    /\ "backendConfigSubscriber" \notin exited
    /\ workerChannelMapLock = ""
    /\ snapshot # warehouses \/ ~initialConfigFetched
    /\ warehouses' = snapshot
    /\ LET st == initWorkers([channels |-> channels, calls |-> initWorkerCalls],
                             snapshot, SnapshotConns(snapshot))
       IN /\ channels' = st.channels
          /\ initWorkerCalls' = st.calls
    /\ initialConfigFetched' = TRUE
    /\ lastCall' = NoCall
    /\ UNCHANGED <<phase, isEnabled, multiSource, stagingFilesBatchSize, maxConcurrentUploadJobs, noOfWorkers, workerChannelMap,
                   inProgressMap, activeWorkerCount, running, allocPc, uploadJobsToProcess,
                   creator, mapVars, dbVars, envVars, allocTicked, lastCreatedAt,
                   passesInRun, crashRecovered>>
    /\ UNCHANGED <<taskVars, supervisorVars>>

\* The registry before the first snapshot: no connection.
NoWarehouses == [c \in Conns |-> NoNamespace]

\* backendConfigSubscriber on the first snapshot, in its steps.  First the snapshot
\* is applied under configSubscriberLock: wh.warehouses is rebuilt and every
\* identifier gets its channel and worker pool.
BackendConfigApply(snapshot) ==
    /\ phase = "running"
    /\ "backendConfigSubscriber" \notin exited
    /\ workerChannelMapLock = ""
    /\ ~initialConfigFetched
    /\ warehouses = NoWarehouses
    /\ snapshot # NoWarehouses
    /\ warehouses' = snapshot
    /\ LET st == initWorkers([channels |-> channels, calls |-> initWorkerCalls],
                             snapshot, SnapshotConns(snapshot))
       IN /\ channels' = st.channels
          /\ initWorkerCalls' = st.calls
    /\ lastCall' = NoCall
    /\ UNCHANGED <<phase, isEnabled, initialConfigFetched, multiSource, stagingFilesBatchSize,
                   maxConcurrentUploadJobs, noOfWorkers, workerChannelMap,
                   inProgressMap, activeWorkerCount, running, allocPc, uploadJobsToProcess,
                   creator, mapVars, dbVars, envVars, allocTicked, lastCreatedAt,
                   passesInRun, crashRecovered>>
    /\ UNCHANGED <<taskVars, supervisorVars>>

\* backendConfigSubscriber on a snapshot, statement by statement.  It takes
\* configSubscriberLock and empties wh.warehouses.
BackendConfigLock(snapshot) ==
    /\ phase = "running"
    /\ "backendConfigSubscriber" \notin exited
    /\ configSubscriberLock = NoHolder
    /\ configSubscriberLock' = <<snapshot, 1>>
    /\ warehouses' = NoWarehouses
    /\ lastCall' = NoCall
    /\ UNCHANGED <<phase, isEnabled, initialConfigFetched, multiSource, stagingFilesBatchSize,
                   maxConcurrentUploadJobs, noOfWorkers, workerChannelMap, channels,
                   inProgressMap, activeWorkerCount, running, allocPc, uploadJobsToProcess,
                   creator, mapVars, dbVars, envVars, histVars,
                   ctxDone, exited, closed, terminated, shutdownPc, workerChannelMapLock,
                   inProgressMapLock, trackedWarehouses, supervisorVars>>

\* It appends the next connection of the snapshot to wh.warehouses and makes the
\* channel and worker pool of its identifier if there is none.
BackendConfigAppend ==
    /\ phase = "running"
    /\ configSubscriberLock # NoHolder
    /\ workerChannelMapLock = ""
    /\ LET snapshot == configSubscriberLock[1]
           n == configSubscriberLock[2]
           conns == SnapshotConns(snapshot)
       IN /\ n <= Len(conns)
          /\ warehouses' = [warehouses EXCEPT ![conns[n]] = snapshot[conns[n]]]
          /\ LET st == initWorkers([channels |-> channels, calls |-> initWorkerCalls],
                                   snapshot, <<conns[n]>>)
             IN /\ channels' = st.channels
                /\ initWorkerCalls' = st.calls
          /\ configSubscriberLock' = <<snapshot, n + 1>>
    /\ lastCall' = NoCall
    /\ UNCHANGED <<phase, isEnabled, initialConfigFetched, multiSource, stagingFilesBatchSize,
                   maxConcurrentUploadJobs, noOfWorkers, workerChannelMap,
                   inProgressMap, activeWorkerCount, running, allocPc, uploadJobsToProcess,
                   creator, mapVars, dbVars, envVars, allocTicked, lastCreatedAt,
                   passesInRun, crashRecovered,
                   ctxDone, exited, closed, terminated, shutdownPc, workerChannelMapLock,
                   inProgressMapLock, trackedWarehouses, supervisorVars>>

\* After the last connection it releases the lock and sets wh.initialConfigFetched.
BackendConfigUnlock ==
    /\ phase = "running"
    /\ configSubscriberLock # NoHolder
    /\ configSubscriberLock[2] > Len(SnapshotConns(configSubscriberLock[1]))
    /\ configSubscriberLock' = NoHolder
    /\ initialConfigFetched' = TRUE
    /\ lastCall' = NoCall
    /\ UNCHANGED <<phase, isEnabled, multiSource, stagingFilesBatchSize,
                   maxConcurrentUploadJobs, noOfWorkers, warehouses, workerChannelMap, channels,
                   inProgressMap, activeWorkerCount, running, allocPc, uploadJobsToProcess,
                   creator, mapVars, dbVars, envVars, histVars,
                   ctxDone, exited, closed, terminated, shutdownPc, workerChannelMapLock,
                   inProgressMapLock, trackedWarehouses, supervisorVars>>

\* uploadStatusTrack starts a round: it ranges over wh.warehouses as it is at that
\* moment, without configSubscriberLock.
UploadStatusTrack ==
    /\ phase = "running"
    /\ trackedWarehouses # warehouses
    /\ trackedWarehouses' = warehouses
    /\ lastCall' = NoCall
    /\ UNCHANGED <<phase, isEnabled, routerVars, mapVars, dbVars, envVars, histVars,
                   ctxDone, exited, closed, terminated, shutdownPc, workerChannelMapLock,
                   inProgressMapLock, configSubscriberLock, supervisorVars>>

BackendConfigFetched_Early ==
    /\ phase = "running"
    /\ "backendConfigSubscriber" \notin exited
    /\ ~initialConfigFetched
    /\ warehouses = NoWarehouses
    /\ initialConfigFetched' = TRUE
    /\ lastCall' = NoCall
    /\ UNCHANGED <<phase, isEnabled, multiSource, stagingFilesBatchSize,
                   maxConcurrentUploadJobs, noOfWorkers, warehouses, workerChannelMap, channels,
                   inProgressMap, activeWorkerCount, running, allocPc, uploadJobsToProcess,
                   creator, mapVars, dbVars, envVars, histVars>>
    /\ UNCHANGED <<taskVars, supervisorVars>>

\* Then, with the locks released, the last statement of the iteration sets
\* wh.initialConfigFetched.
BackendConfigFetched ==
    /\ phase = "running"
    /\ "backendConfigSubscriber" \notin exited
    /\ ~initialConfigFetched
    /\ warehouses # NoWarehouses
    /\ initialConfigFetched' = TRUE
    /\ lastCall' = NoCall
    /\ UNCHANGED <<phase, isEnabled, multiSource, stagingFilesBatchSize,
                   maxConcurrentUploadJobs, noOfWorkers, warehouses, workerChannelMap, channels,
                   inProgressMap, activeWorkerCount, running, allocPc, uploadJobsToProcess,
                   creator, mapVars, dbVars, envVars, histVars>>
    /\ UNCHANGED <<taskVars, supervisorVars>>

\* ------------------------------------------------------------- job creator
ConnRows(rows, c) == {i \in DOMAIN rows : rows[i].conn = c}

\* isUploadJobInProgress: the job id is in the in-progress list of the identifier
\* built from the caller's copy of the connection.
isUploadJobInProgress(c, ns, jobID) ==
    \E idx \in DOMAIN inProgressMap[workerIdentifier(c, ns)] :
        inProgressMap[workerIdentifier(c, ns)][idx] = jobID

\* getLatestUploadStatus: id, status and priority of the connection's row with the
\* greatest id; id 0 and an empty status when it has none.
getLatestUploadStatus(rows, c) ==
    IF ConnRows(rows, c) = {}
    THEN [id |-> 0, status |-> "", priority |-> 0]
    ELSE LET i == Max(ConnRows(rows, c))
         IN [id |-> i, status |-> rows[i].status, priority |-> Priority(rows[i])]

\* deleteWaitingUploadJob: DELETE FROM wh_uploads WHERE id = .. AND status = 'waiting'
deleteWaitingUploadJob(rows, jobID) ==
    [i \in {j \in DOMAIN rows : ~(j = jobID /\ rows[j].status = Waiting)} |-> rows[i]]

uploadFrequencyExceeded_Never(c) == FALSE

\* uploadFrequencyExceeded: a marker exists and now - marker < uploadFreqInS
uploadFrequencyExceeded(c) ==
    /\ lastProcessedMarkerMap[c] # -1
    /\ now - lastProcessedMarkerMap[c] < uploadFreqInS

\* canCreateUpload: a triggered upload always passes, otherwise the frequency gate decides
canCreateUpload(c) ==
    c \in triggerUploadsMap \/ ~uploadFrequencyExceeded(c)

getPendingStagingFiles_SkipOne(rows, files, c) ==
    LET lastStagingFileID ==
            IF ConnRows(rows, c) = {} THEN 0 ELSE rows[Max(ConnRows(rows, c))].end
        ids == {i \in DOMAIN files : files[i].conn = c /\ i > lastStagingFileID + 1}
        nth(k) == CHOOSE i \in ids : Cardinality({j \in ids : j < i}) = k - 1
    IN [k \in 1..Cardinality(ids) |->
            [id |-> nth(k), useRudderStorage |-> files[nth(k)].useRudderStorage]]

getPendingStagingFiles_FromStart(rows, files, c) ==
    LET ids == {i \in DOMAIN files : files[i].conn = c}
        nth(k) == CHOOSE i \in ids : Cardinality({j \in ids : j < i}) = k - 1
    IN [k \in 1..Cardinality(ids) |->
            [id |-> nth(k), useRudderStorage |-> files[nth(k)].useRudderStorage]]

\* getPendingStagingFiles: end_staging_file_id of the connection's row with the
\* greatest id (0 without rows), then the connection's staging files after that id,
\* by id ascending.
getPendingStagingFiles(rows, files, c) ==
    LET lastStagingFileID ==
            IF ConnRows(rows, c) = {} THEN 0 ELSE rows[Max(ConnRows(rows, c))].end
        ids == {i \in DOMAIN files : files[i].conn = c /\ i > lastStagingFileID}
        nth(k) == CHOOSE i \in ids : Cardinality({j \in ids : j < i}) = k - 1
    IN [k \in 1..Cardinality(ids) |->
            [id |-> nth(k), useRudderStorage |-> files[nth(k)].useRudderStorage]]

\* The loop of createUploadJobsFromStagingFiles: the chunks it hands to initUpload.
RECURSIVE ChunkLoop(_, _, _, _)
ChunkLoop(list, idx, stagingFilesInUpload, chunks) ==
    IF idx > Len(list) THEN chunks
    ELSE LET split == /\ idx > 1
                      /\ Len(stagingFilesInUpload) > 0
                      /\ list[idx].useRudderStorage # list[idx - 1].useRudderStorage
             chunks1 == IF split THEN Append(chunks, stagingFilesInUpload) ELSE chunks
             inUpload == Append(IF split THEN <<>> ELSE stagingFilesInUpload, list[idx])
             full == Len(inUpload) = stagingFilesBatchSize \/ idx = Len(list)
         IN ChunkLoop(list, idx + 1,
                      IF full THEN <<>> ELSE inUpload,
                      IF full THEN Append(chunks1, inUpload) ELSE chunks1)

createUploadJobsFromStagingFiles_OneJob(list) == <<list>>

createUploadJobsFromStagingFiles_BatchOnly(list) ==
    LET size == stagingFilesBatchSize
        count == (Len(list) + size - 1) \div size
    IN [m \in 1..count |->
            SubSeq(list, (m - 1) * size + 1,
                   IF m * size < Len(list) THEN m * size ELSE Len(list))]

createUploadJobsFromStagingFiles(list) == ChunkLoop(list, 1, <<>>, <<>>)

initUpload_NoCarry(c, ns, jsonUploadsList, isUploadTriggered, priority, uploadStartAfter) ==
    [conn |-> c,
     namespace |-> ns,
     workspace |-> WorkspaceOf(c),
     start |-> jsonUploadsList[1].id,
     end |-> jsonUploadsList[Len(jsonUploadsList)].id,
     status |-> Waiting,
     in_progress |-> FALSE,
     error |-> NoError,
     priority |-> IF isUploadTriggered THEN TriggeredPriority ELSE 0,
     nextRetryTime |-> uploadStartAfter]

\* initUpload: the row inserted for one chunk.
initUpload(c, ns, jsonUploadsList, isUploadTriggered, priority, uploadStartAfter) ==
    [conn |-> c,
     namespace |-> ns,
     workspace |-> WorkspaceOf(c),
     start |-> jsonUploadsList[1].id,
     end |-> jsonUploadsList[Len(jsonUploadsList)].id,
     status |-> Waiting,
     in_progress |-> FALSE,
     error |-> NoError,
     priority |-> IF priority # 0 THEN priority
                  ELSE IF isUploadTriggered THEN TriggeredPriority ELSE 0,
     nextRetryTime |-> uploadStartAfter]

clearTriggeredUploadAfter_Always(c, inserted) == triggerUploadsMap \ {c}

\* The trigger set a pass leaves behind: createUploadJobsFromStagingFiles, which only
\* a pass that inserts reaches, clears the connection's trigger after its inserts
\* (clearTriggeredUpload); a pass that returns before it does not touch the set.
clearTriggeredUploadAfter(c, inserted) ==
    IF inserted THEN triggerUploadsMap \ {c} ELSE triggerUploadsMap

MainLoop_Always ==
    /\ phase = "running"
    /\ "mainLoop" \notin exited
    /\ \A c \in Conns : creator[c].pc = "done"
    /\ \E c \in Conns : warehouses[c] # NoNamespace
    /\ creator' = [c \in Conns |->
                     IF warehouses[c] # NoNamespace
                     THEN [pc |-> "start", ns |-> warehouses[c], priority |-> 0]
                     ELSE NoJob]
    /\ lastCall' = NoCall
    /\ UNCHANGED <<phase, isEnabled, initialConfigFetched, multiSource, stagingFilesBatchSize,
                   maxConcurrentUploadJobs, noOfWorkers, warehouses, workerChannelMap, channels,
                   inProgressMap, activeWorkerCount, running, allocPc,
                   uploadJobsToProcess, mapVars, dbVars, envVars, histVars>>
    /\ UNCHANGED <<taskVars, supervisorVars>>

\* mainLoop, start of an iteration: the router is enabled, the previous iteration's
\* goroutines are all done; one createJobs goroutine per connection of wh.warehouses,
\* each with its own copy of the connection.
MainLoop ==
    /\ phase = "running"
    /\ "mainLoop" \notin exited
    /\ isEnabled
    /\ \A c \in Conns : creator[c].pc = "done"
    /\ \E c \in Conns : warehouses[c] # NoNamespace
    /\ creator' = [c \in Conns |->
                     IF warehouses[c] # NoNamespace
                     THEN [pc |-> "start", ns |-> warehouses[c], priority |-> 0]
                     ELSE NoJob]
    /\ lastCall' = NoCall
    /\ UNCHANGED <<phase, isEnabled, initialConfigFetched, multiSource, stagingFilesBatchSize,
                   maxConcurrentUploadJobs, noOfWorkers, warehouses, workerChannelMap, channels,
                   inProgressMap, activeWorkerCount, running, allocPc,
                   uploadJobsToProcess, mapVars, dbVars, envVars, histVars>>
    /\ UNCHANGED <<taskVars, supervisorVars>>

crashRecoverFailed_Never(c, recovered) == FALSE

\* createJobs, step 1: the pass returns with the error of CrashRecover when the
\* connection's destination is in inRecoveryMap and the loader's CrashRecover fails.
crashRecoverFailed(c, recovered) == DestOf(c) \in inRecoveryMap /\ ~recovered

\* createJobs up to the release of areBeingEnqueuedLock: crash recovery, the
\* frequency gate, and the deletion of a latest job that is still waiting and not in
\* the in-progress index.
CreateJobsGate(c, recovered) ==
    /\ phase = "running"
    /\ creator[c].pc = "start"
    /\ lastCall' = NoCall
    /\ IF crashRecoverFailed(c, recovered)
       THEN \* CrashRecover failed: the pass returns
            /\ creator' = [creator EXCEPT ![c] = NoJob]
            /\ UNCHANGED <<inRecoveryMap, uploads, crashRecovered>>
       ELSE /\ inRecoveryMap' = inRecoveryMap \ {DestOf(c)}
            /\ crashRecovered' = IF DestOf(c) \in inRecoveryMap /\ recovered
                                 THEN crashRecovered \cup {DestOf(c)}
                                 ELSE crashRecovered
            /\ IF ~canCreateUpload(c)
               THEN /\ creator' = [creator EXCEPT ![c] = NoJob]
                    /\ UNCHANGED uploads
               ELSE LET latest == getLatestUploadStatus(uploads, c)
                        delete == /\ latest.status = Waiting
                                  /\ ~isUploadJobInProgress(c, creator[c].ns, latest.id)
                    IN /\ uploads' = IF delete
                                     THEN deleteWaitingUploadJob(uploads, latest.id)
                                     ELSE uploads
                       /\ creator' = [creator EXCEPT ![c].pc = "fetch",
                                          ![c].priority = IF delete THEN latest.priority ELSE 0]
    /\ UNCHANGED <<phase, isEnabled, initialConfigFetched, multiSource, stagingFilesBatchSize,
                   maxConcurrentUploadJobs, noOfWorkers, warehouses, workerChannelMap, channels,
                   inProgressMap, activeWorkerCount, running, allocPc,
                   uploadJobsToProcess, triggerUploadsMap, lastProcessedMarkerMap,
                   nextJobId, stagingFiles, envVars, allocTicked, lastCreatedAt,
                   passesInRun, initWorkerCalls>>
    /\ UNCHANGED <<taskVars, supervisorVars>>

InsertUploads_Reversed(rows, firstId, c, ns, chunks, uploadTriggered, priority, uploadStartAfter) ==
    [i \in DOMAIN rows \cup (firstId..(firstId + Len(chunks) - 1)) |->
        IF i \in DOMAIN rows THEN rows[i]
        ELSE initUpload(c, ns, chunks[Len(chunks) - (i - firstId)], uploadTriggered, priority,
                        uploadStartAfter)]

\* The rows of wh_uploads after createUploadJobsFromStagingFiles has inserted one
\* row per chunk, ids taken from the sequence.
InsertUploads(rows, firstId, c, ns, chunks, uploadTriggered, priority, uploadStartAfter) ==
    [i \in DOMAIN rows \cup (firstId..(firstId + Len(chunks) - 1)) |->
        IF i \in DOMAIN rows THEN rows[i]
        ELSE initUpload(c, ns, chunks[i - firstId + 1], uploadTriggered, priority,
                        uploadStartAfter)]

\* createJobs after the lock: the pending staging files are fetched; with none, or
\* with a fetch error, the pass returns; otherwise one row per chunk is inserted, a
\* consumed trigger is cleared and the last-processed marker is set.
CreateJobsInsert(c, fetchError, jitter) ==
    /\ phase = "running"
    /\ creator[c].pc = "fetch"
    /\ lastCall' = NoCall
    /\ creator' = [creator EXCEPT ![c] = NoJob]
    /\ LET stagingFilesList == getPendingStagingFiles(uploads, stagingFiles, c)
           chunks == createUploadJobsFromStagingFiles(stagingFilesList)
           uploadStartAfter == now + jitter
       IN IF fetchError \/ Len(stagingFilesList) = 0
          THEN /\ jitter = 0
               /\ triggerUploadsMap' = clearTriggeredUploadAfter(c, FALSE)
               /\ UNCHANGED <<uploads, nextJobId,
                              lastProcessedMarkerMap, lastCreatedAt, passesInRun>>
          ELSE /\ nextJobId + Len(chunks) - 1 <= MaxJobId
               /\ uploads' = InsertUploads(uploads, nextJobId, c, creator[c].ns, chunks,
                                           c \in triggerUploadsMap, creator[c].priority,
                                           uploadStartAfter)
               /\ nextJobId' = nextJobId + Len(chunks)
               /\ triggerUploadsMap' = clearTriggeredUploadAfter(c, TRUE)
               /\ lastProcessedMarkerMap' = [lastProcessedMarkerMap EXCEPT ![c] = uploadStartAfter]
               /\ lastCreatedAt' = [lastCreatedAt EXCEPT ![c] = now]
               /\ passesInRun' = [passesInRun EXCEPT ![c] = @ + 1]
    /\ UNCHANGED <<phase, isEnabled, initialConfigFetched, multiSource, stagingFilesBatchSize,
                   maxConcurrentUploadJobs, noOfWorkers, warehouses, workerChannelMap, channels,
                   inProgressMap, activeWorkerCount, running, allocPc,
                   uploadJobsToProcess, inRecoveryMap, stagingFiles, envVars, allocTicked,
                   initWorkerCalls, crashRecovered>>
    /\ UNCHANGED <<taskVars, supervisorVars>>

\* One whole createJobs pass for a connection of wh.warehouses, run by an enabled
\* mainLoop with no other step in between: the gate, the deletion of a waiting latest
\* job, the fetch and the inserts.
CreateJobs(c, jitter) ==
    /\ phase = "running"
    /\ "mainLoop" \notin exited
    /\ isEnabled
    /\ warehouses[c] # NoNamespace
    /\ \A d \in Conns : creator[d].pc = "done"
    /\ DestOf(c) \notin inRecoveryMap
    /\ canCreateUpload(c)
    /\ lastCall' = NoCall
    /\ LET latest == getLatestUploadStatus(uploads, c)
           delete == /\ latest.status = Waiting
                     /\ ~isUploadJobInProgress(c, warehouses[c], latest.id)
           priority == IF delete THEN latest.priority ELSE 0
           rows == IF delete THEN deleteWaitingUploadJob(uploads, latest.id) ELSE uploads
           stagingFilesList == getPendingStagingFiles(rows, stagingFiles, c)
           chunks == createUploadJobsFromStagingFiles(stagingFilesList)
           uploadStartAfter == now + jitter
       IN IF Len(stagingFilesList) = 0
          THEN /\ jitter = 0
               /\ delete
               /\ uploads' = rows
               /\ triggerUploadsMap' = clearTriggeredUploadAfter(c, FALSE)
               /\ UNCHANGED <<nextJobId, lastProcessedMarkerMap,
                              lastCreatedAt, passesInRun>>
          ELSE /\ nextJobId + Len(chunks) - 1 <= MaxJobId
               /\ uploads' = InsertUploads(rows, nextJobId, c, warehouses[c], chunks,
                                           c \in triggerUploadsMap, priority, uploadStartAfter)
               /\ nextJobId' = nextJobId + Len(chunks)
               /\ triggerUploadsMap' = clearTriggeredUploadAfter(c, TRUE)
               /\ lastProcessedMarkerMap' = [lastProcessedMarkerMap EXCEPT ![c] = uploadStartAfter]
               /\ lastCreatedAt' = [lastCreatedAt EXCEPT ![c] = now]
               /\ passesInRun' = [passesInRun EXCEPT ![c] = @ + 1]
    /\ UNCHANGED <<phase, isEnabled, initialConfigFetched, multiSource, stagingFilesBatchSize,
                   maxConcurrentUploadJobs, noOfWorkers, warehouses, workerChannelMap, channels,
                   inProgressMap, activeWorkerCount, running, allocPc,
                   uploadJobsToProcess, creator, inRecoveryMap, stagingFiles, envVars,
                   allocTicked, initWorkerCalls, crashRecovered>>
    /\ UNCHANGED <<taskVars, supervisorVars>>

\* ----------------------------------------------------------- job allocator
\* lexicographic (priority, id) order of the selection query
Before(rows, i, j) ==
    \/ Priority(rows[i]) < Priority(rows[j])
    \/ Priority(rows[i]) = Priority(rows[j]) /\ i < j

Selectable_Degraded(rows, skipIdentifiers, degraded, t) ==
    {i \in DOMAIN rows :
        /\ ~rows[i].in_progress
        /\ rows[i].status \notin TerminalStatuses
        /\ partitionIdentifier(rows[i]) \notin skipIdentifiers
        /\ rows[i].nextRetryTime <= t}

Selectable_WaitingOnly(rows, skipIdentifiers, degraded, t) ==
    {i \in DOMAIN rows :
        /\ ~rows[i].in_progress
        /\ rows[i].status = Waiting
        /\ partitionIdentifier(rows[i]) \notin skipIdentifiers
        /\ rows[i].nextRetryTime <= t
        /\ rows[i].workspace \notin degraded}

Selectable_AnyTime(rows, skipIdentifiers, degraded, t) ==
    {i \in DOMAIN rows :
        /\ ~rows[i].in_progress
        /\ rows[i].status \notin TerminalStatuses
        /\ partitionIdentifier(rows[i]) \notin skipIdentifiers
        /\ rows[i].workspace \notin degraded}

\* The WHERE clause of the inner query of getUploadsToProcess.
Selectable(rows, skipIdentifiers, degraded, t) ==
    {i \in DOMAIN rows :
        /\ ~rows[i].in_progress
        /\ rows[i].status \notin TerminalStatuses
        /\ partitionIdentifier(rows[i]) \notin skipIdentifiers
        /\ rows[i].nextRetryTime <= t
        /\ rows[i].workspace \notin degraded}

FirstOfPartition_ById(rows, S) ==
    {i \in S : \A j \in S \ {i} :
        partitionIdentifier(rows[j]) = partitionIdentifier(rows[i]) => i < j}

\* ROW_NUMBER() OVER (PARTITION BY .. ORDER BY priority, id) = 1
FirstOfPartition(rows, S) ==
    {i \in S : \A j \in S \ {i} :
        partitionIdentifier(rows[j]) = partitionIdentifier(rows[i]) => Before(rows, i, j)}

OrderLimit_ById(rows, S, n) ==
    LET rank(i) == Cardinality({j \in S : j < i}) + 1
        m == IF Cardinality(S) < n THEN Cardinality(S) ELSE n
    IN [k \in 1..m |-> CHOOSE i \in S : rank(i) = k]

OrderLimit_NoLimit(rows, S, n) ==
    LET rank(i) == Cardinality({j \in S : Before(rows, j, i)}) + 1
    IN [k \in 1..Cardinality(S) |-> CHOOSE i \in S : rank(i) = k]

\* ORDER BY priority, id LIMIT n, as the list of ids
OrderLimit(rows, S, n) ==
    LET rank(i) == Cardinality({j \in S : Before(rows, j, i)}) + 1
        m == IF Cardinality(S) < n THEN Cardinality(S) ELSE n
    IN [k \in 1..m |-> CHOOSE i \in S : rank(i) = k]

\* The rows the selection query returns, in order.
SelectedRows(rows, availableWorkers, skipIdentifiers, degraded, t) ==
    OrderLimit(rows, FirstOfPartition(rows, Selectable(rows, skipIdentifiers, degraded, t)),
               availableWorkers)

\* getUploadsToProcess: the upload jobs built from the returned rows whose
\* connection is in wh.warehouses, each with the registry's copy of the connection;
\* the rows without a connection are set to aborted (setUploadError) and left out.
getUploadsToProcess(rows, availableWorkers, skipIdentifiers, degraded, t) ==
    LET sel == SelectedRows(rows, availableWorkers, skipIdentifiers, degraded, t)
        found(i) == warehouses[rows[i].conn] # NoNamespace
        F[k \in 0..Len(sel)] ==
            IF k = 0 THEN <<>>
            ELSE IF found(sel[k]) THEN Append(F[k - 1], sel[k]) ELSE F[k - 1]
        kept == F[Len(sel)]
    IN [jobs |-> [k \in 1..Len(kept) |->
                    [id |-> kept[k],
                     identifier |-> workerIdentifier(rows[kept[k]].conn,
                                                     warehouses[rows[kept[k]].conn])]],
        aborted |-> {sel[k] : k \in {x \in 1..Len(sel) : ~found(sel[x])}}]

\* getInProgressNamespaces: identifiers whose in-progress list has reached
\* maxConcurrentUploadJobs
getInProgressNamespaces ==
    {k \in Identifiers : Len(inProgressMap[k]) >= maxConcurrentUploadJobs
                         /\ Len(inProgressMap[k]) > 0}

\* setDestInProgress for every job of a tick, in order
RECURSIVE setDestInProgress(_, _)
setDestInProgress(index, jobs) ==
    IF jobs = <<>> THEN index
    ELSE setDestInProgress(
            [index EXCEPT ![Head(jobs).identifier] = Append(@, Head(jobs).id)],
            Tail(jobs))

\* runUploadJobAllocator, one tick up to the release of areBeingEnqueuedLock:
\* available workers, skipped identifiers, the selection, and the in-progress index.
AllocatorTick ==
    /\ phase = "running"
    /\ "runUploadJobAllocator" \notin exited
    /\ initialConfigFetched
    /\ allocPc = "idle"
    /\ noOfWorkers - activeWorkerCount >= 1
    /\ LET got == getUploadsToProcess(uploads, noOfWorkers - activeWorkerCount,
                                      getInProgressNamespaces, degradedWorkspaces, now)
       IN /\ uploads' = [i \in DOMAIN uploads |->
                           IF i \in got.aborted
                           THEN [uploads[i] EXCEPT !.status = Aborted, !.error = UnableToFindSource]
                           ELSE uploads[i]]
          /\ inProgressMap' = setDestInProgress(inProgressMap, got.jobs)
          /\ \A k \in Identifiers : Len(inProgressMap'[k]) <= MaxInFlight
          /\ uploadJobsToProcess' = got.jobs
    /\ allocPc' = "send"
    /\ allocTicked' = TRUE
    /\ lastCall' = NoCall
    /\ UNCHANGED <<phase, isEnabled, initialConfigFetched, multiSource, stagingFilesBatchSize,
                   maxConcurrentUploadJobs, noOfWorkers, warehouses, workerChannelMap, channels,
                   activeWorkerCount, running, creator, mapVars, nextJobId,
                   stagingFiles, envVars, lastCreatedAt, passesInRun, initWorkerCalls,
                   crashRecovered>>
    /\ UNCHANGED <<taskVars, supervisorVars>>

AllocatorSelectError_Continue(failAt) ==
    /\ phase = "running"
    /\ "runUploadJobAllocator" \notin exited
    /\ initialConfigFetched
    /\ allocPc = "idle"
    /\ noOfWorkers - activeWorkerCount >= 1
    /\ allocPc' = "send"
    /\ lastCall' = <<"selectError", failAt>>
    /\ UNCHANGED <<phase, isEnabled, initialConfigFetched, multiSource, stagingFilesBatchSize,
                   maxConcurrentUploadJobs, noOfWorkers, warehouses, workerChannelMap, channels,
                   inProgressMap, activeWorkerCount, running, uploadJobsToProcess, creator, mapVars,
                   dbVars, envVars, histVars, taskVars, supervisorVars>>

\* runUploadJobAllocator, a tick in which getUploadsToProcess returns an error: the
\* allocator panics with areBeingEnqueuedLock held, before any setDestInProgress.
\* failAt = 0 is the error of the query; failAt = k the error of GetInRange or
\* manager.New at the k-th returned row, which has a connection, after the rows
\* before it without a connection were set to aborted; failAt past the last row is
\* the error of processingStats.
AllocatorSelectError(failAt) ==
    /\ phase = "running"
    /\ "runUploadJobAllocator" \notin exited
    /\ initialConfigFetched
    /\ allocPc = "idle"
    /\ noOfWorkers - activeWorkerCount >= 1
    /\ LET sel == SelectedRows(uploads, noOfWorkers - activeWorkerCount,
                               getInProgressNamespaces, degradedWorkspaces, now)
           found(i) == warehouses[uploads[i].conn] # NoNamespace
           abortedBefore == {sel[k] : k \in {x \in 1..Len(sel) : x < failAt /\ ~found(sel[x])}}
       IN /\ failAt \in 0..(Len(sel) + 1)
          /\ failAt \in 1..Len(sel) => found(sel[failAt])
          /\ uploads' = [i \in DOMAIN uploads |->
                           IF i \in abortedBefore
                           THEN [uploads[i] EXCEPT !.status = Aborted, !.error = UnableToFindSource]
                           ELSE uploads[i]]
    /\ allocPc' = "panicked"
    /\ lastCall' = <<"selectError", failAt>>
    /\ UNCHANGED <<phase, isEnabled, initialConfigFetched, multiSource, stagingFilesBatchSize,
                   maxConcurrentUploadJobs, noOfWorkers, warehouses, workerChannelMap, channels,
                   inProgressMap, activeWorkerCount, running, uploadJobsToProcess, creator, mapVars,
                   nextJobId, stagingFiles, envVars, histVars, taskVars, supervisorVars>>

RECURSIVE sendAll(_, _)
sendAll(chans, jobs) ==
    IF jobs = <<>> THEN chans
    ELSE sendAll([chans EXCEPT ![Head(jobs).identifier] = Append(@, Head(jobs).id)],
                 Tail(jobs))

\* runUploadJobAllocator, rest of the tick: every claimed job is sent on the channel
\* of its identifier.
AllocatorSend ==
    /\ phase = "running"
    /\ allocPc = "send"
    /\ \A k \in 1..Len(uploadJobsToProcess) : uploadJobsToProcess[k].identifier \in channels
    /\ workerChannelMap' = sendAll(workerChannelMap, uploadJobsToProcess)
    /\ uploadJobsToProcess' = <<>>
    /\ allocPc' = "idle"
    /\ lastCall' = NoCall
    /\ UNCHANGED <<phase, isEnabled, initialConfigFetched, multiSource, stagingFilesBatchSize,
                   maxConcurrentUploadJobs, noOfWorkers, warehouses, channels, inProgressMap,
                   activeWorkerCount, running, creator, mapVars, dbVars, envVars, histVars>>
    /\ UNCHANGED <<taskVars, supervisorVars>>

\* The send loop of runUploadJobAllocator in its steps.  First the allocator takes
\* wh.workerChannelMapLock for the next job of the tick.
AllocatorSendLock ==
    /\ phase = "running"
    /\ allocPc = "send"
    /\ uploadJobsToProcess # <<>>
    /\ workerChannelMapLock = ""
    /\ workerChannelMapLock' = "allocator"
    /\ allocPc' = "sending"
    /\ lastCall' = NoCall
    /\ UNCHANGED <<phase, isEnabled, initialConfigFetched, multiSource, stagingFilesBatchSize,
                   maxConcurrentUploadJobs, noOfWorkers, warehouses, workerChannelMap, channels,
                   inProgressMap, activeWorkerCount, running, uploadJobsToProcess, creator,
                   mapVars, dbVars, envVars, histVars,
                   ctxDone, exited, closed, terminated, shutdownPc, inProgressMapLock, configSubscriberLock, trackedWarehouses,
                   supervisorVars>>

AllocatorSendOne_KeepLock ==
    /\ phase = "running"
    /\ allocPc = "sending"
    /\ Head(uploadJobsToProcess).identifier \in channels
    /\ Len(workerChannelMap[Head(uploadJobsToProcess).identifier]) < ChannelCapacity
    /\ workerChannelMap' = [workerChannelMap EXCEPT ![Head(uploadJobsToProcess).identifier] =
                               Append(@, Head(uploadJobsToProcess).id)]
    /\ uploadJobsToProcess' = Tail(uploadJobsToProcess)
    /\ allocPc' = "send"
    /\ lastCall' = NoCall
    /\ UNCHANGED <<phase, isEnabled, initialConfigFetched, multiSource, stagingFilesBatchSize,
                   maxConcurrentUploadJobs, noOfWorkers, warehouses, channels,
                   inProgressMap, activeWorkerCount, running, creator,
                   mapVars, dbVars, envVars, histVars, taskVars, supervisorVars>>

\* Then it sends the job on the channel of its identifier, which blocks while the
\* buffer is full, and releases the lock after the send.
AllocatorSendOne ==
    /\ phase = "running"
    /\ allocPc = "sending"
    /\ Head(uploadJobsToProcess).identifier \in channels
    /\ Len(workerChannelMap[Head(uploadJobsToProcess).identifier]) < ChannelCapacity
    /\ workerChannelMap' = [workerChannelMap EXCEPT ![Head(uploadJobsToProcess).identifier] =
                               Append(@, Head(uploadJobsToProcess).id)]
    /\ uploadJobsToProcess' = Tail(uploadJobsToProcess)
    /\ workerChannelMapLock' = ""
    /\ allocPc' = "send"
    /\ lastCall' = NoCall
    /\ UNCHANGED <<phase, isEnabled, initialConfigFetched, multiSource, stagingFilesBatchSize,
                   maxConcurrentUploadJobs, noOfWorkers, warehouses, channels,
                   inProgressMap, activeWorkerCount, running, creator,
                   mapVars, dbVars, envVars, histVars,
                   ctxDone, exited, closed, terminated, shutdownPc, inProgressMapLock, configSubscriberLock, trackedWarehouses,
                   supervisorVars>>

\* After the last job of the tick the allocator goes to its sleep.
AllocatorSendEnd ==
    /\ phase = "running"
    /\ allocPc = "send"
    /\ uploadJobsToProcess = <<>>
    /\ allocPc' = "idle"
    /\ lastCall' = NoCall
    /\ UNCHANGED <<phase, isEnabled, initialConfigFetched, multiSource, stagingFilesBatchSize,
                   maxConcurrentUploadJobs, noOfWorkers, warehouses, workerChannelMap, channels,
                   inProgressMap, activeWorkerCount, running, uploadJobsToProcess, creator,
                   mapVars, dbVars, envVars, histVars, taskVars, supervisorVars>>

\* ------------------------------------------------------------- worker pool
RemoveAt(seq, idx) == [k \in 1..(Len(seq) - 1) |-> IF k < idx THEN seq[k] ELSE seq[k + 1]]

removeDestInProgress_Noop(index, identifier, jobID) == index

\* removeDestInProgress: the first occurrence of the job id leaves the identifier's list
removeDestInProgress(index, identifier, jobID) ==
    LET hits == {idx \in DOMAIN index[identifier] : index[identifier][idx] = jobID}
    IN IF hits = {} THEN index
       ELSE [index EXCEPT ![identifier] =
                RemoveAt(@, CHOOSE idx \in hits : \A o \in hits : idx <= o)]

\* A worker of the identifier's pool receives a job, increments the active-worker
\* counter and starts the loader's run, which marks the row in progress.
WorkerReceive(k) ==
    /\ phase = "running"
    /\ k \in channels
    /\ workerChannelMap[k] # <<>>
    /\ Len(running[k]) + terminated[k] < maxConcurrentUploadJobs
    /\ workerChannelMap' = [workerChannelMap EXCEPT ![k] = Tail(@)]
    /\ running' = [running EXCEPT ![k] = Append(@, Head(workerChannelMap[k]))]
    /\ activeWorkerCount' = activeWorkerCount + 1
    /\ uploads' = [i \in DOMAIN uploads |->
                     IF i = Head(workerChannelMap[k])
                     THEN [uploads[i] EXCEPT !.in_progress = TRUE]
                     ELSE uploads[i]]
    /\ lastCall' = NoCall
    /\ UNCHANGED <<phase, isEnabled, initialConfigFetched, multiSource, stagingFilesBatchSize,
                   maxConcurrentUploadJobs, noOfWorkers, warehouses, channels, inProgressMap,
                   allocPc, uploadJobsToProcess, creator, mapVars, nextJobId,
                   stagingFiles, envVars, histVars>>
    /\ UNCHANGED <<taskVars, supervisorVars>>

\* The loader's run reaches the export phase.
WorkerExport(k, idx) ==
    /\ phase = "running"
    /\ idx \in DOMAIN running[k]
    /\ running[k][idx] \in DOMAIN uploads
    /\ uploads[running[k][idx]].status # ExportingData
    /\ uploads' = [uploads EXCEPT ![running[k][idx]].status = ExportingData]
    /\ lastCall' = NoCall
    /\ UNCHANGED <<phase, isEnabled, routerVars, mapVars, nextJobId, stagingFiles,
                   envVars, histVars>>
    /\ UNCHANGED <<taskVars, supervisorVars>>

\* The loader's run returns (exported, aborted, or failed with a retry time
\* retryDelay seconds ahead); the
\* worker removes the job from the in-progress index and decrements the counter.
WorkerDone(k, idx, outcome, retryDelay) ==
    /\ phase = "running"
    /\ idx \in DOMAIN running[k]
    /\ uploads' = [i \in DOMAIN uploads |->
                     IF i = running[k][idx]
                     THEN [uploads[i] EXCEPT !.status = outcome, !.in_progress = FALSE,
                              !.nextRetryTime = IF outcome = ExportingDataFailed
                                                THEN now + retryDelay ELSE @]
                     ELSE uploads[i]]
    /\ inProgressMap' = removeDestInProgress(inProgressMap, k, running[k][idx])
    /\ running' = [running EXCEPT ![k] = RemoveAt(@, idx)]
    /\ activeWorkerCount' = activeWorkerCount - 1
    /\ lastCall' = NoCall
    /\ UNCHANGED <<phase, isEnabled, initialConfigFetched, multiSource, stagingFilesBatchSize,
                   maxConcurrentUploadJobs, noOfWorkers, warehouses, workerChannelMap, channels,
                   allocPc, uploadJobsToProcess, creator, mapVars, nextJobId,
                   stagingFiles, envVars, histVars>>
    /\ UNCHANGED <<taskVars, supervisorVars>>

\* The end of a job in the worker's steps.  First the loader's run returns and the
\* worker, in removeDestInProgress, takes wh.inProgressMapLock.
WorkerReturn(k, idx, outcome) ==
    /\ phase = "running"
    /\ idx \in DOMAIN running[k]
    /\ inProgressMapLock = NoHolder
    /\ inProgressMapLock' = <<k, running[k][idx]>>
    /\ uploads' = [i \in DOMAIN uploads |->
                     IF i = running[k][idx]
                     THEN [uploads[i] EXCEPT !.status = outcome, !.in_progress = FALSE,
                              !.nextRetryTime = IF outcome = ExportingDataFailed
                                                THEN now ELSE @]
                     ELSE uploads[i]]
    /\ lastCall' = NoCall
    /\ UNCHANGED <<phase, isEnabled, routerVars, mapVars, nextJobId, stagingFiles, envVars,
                   histVars, ctxDone, exited, closed, terminated, shutdownPc,
                   workerChannelMapLock, configSubscriberLock, trackedWarehouses,
                   supervisorVars>>

\* Then it removes the job from the list of its identifier, releases the lock and
\* decrements the active-worker counter.
WorkerRemoved(k) ==
    /\ phase = "running"
    /\ inProgressMapLock # NoHolder
    /\ inProgressMapLock[1] = k
    /\ inProgressMap' = removeDestInProgress(inProgressMap, k, inProgressMapLock[2])
    /\ running' = [running EXCEPT ![k] =
                      RemoveAt(@, CHOOSE idx \in DOMAIN running[k] :
                                     running[k][idx] = inProgressMapLock[2])]
    /\ activeWorkerCount' = activeWorkerCount - 1
    /\ inProgressMapLock' = NoHolder
    /\ lastCall' = NoCall
    /\ UNCHANGED <<phase, isEnabled, initialConfigFetched, multiSource, stagingFilesBatchSize,
                   maxConcurrentUploadJobs, noOfWorkers, warehouses, workerChannelMap, channels,
                   allocPc, uploadJobsToProcess, creator, mapVars, dbVars, envVars, histVars,
                   ctxDone, exited, closed, terminated, shutdownPc, workerChannelMapLock,
                   configSubscriberLock, trackedWarehouses, supervisorVars>>

\* ------------------------------------------------------- router supervisor
\* onConfigDataEvent, first loop, over the destinations of the snapshot in order: a
\* warehouse type without a router gets one constructed and Setup (which enables it),
\* a type with a router gets Enable().
RECURSIVE setupOrEnable(_, _)
setupOrEnable(st, destinations) ==
    IF destinations = <<>> THEN st
    ELSE LET t == Head(destinations)
         IN setupOrEnable(
                IF t \notin WarehouseDestinations THEN st
                ELSE IF st.routers[t] = "none"
                     THEN [routers |-> [st.routers EXCEPT ![t] = "enabled"],
                           calls |-> [st.calls EXCEPT ![t] = @ + 1]]
                     ELSE [st EXCEPT !.routers[t] = "enabled"],
                Tail(destinations))

disableAbsent_Noop(routers, enabledDestinations) == routers

\* onConfigDataEvent, second loop: Disable() for every router of the map whose type
\* is not among the snapshot's destination types.
disableAbsent(routers, enabledDestinations) ==
    [t \in WarehouseDestinations |->
        IF routers[t] # "none" /\ t \notin enabledDestinations
        THEN "disabled" ELSE routers[t]]

\* monitorDestRouters receives a config snapshot: onConfigDataEvent.
OnConfigDataEvent(destinations) ==
    /\ LET st == setupOrEnable([routers |-> dstToWhRouter, calls |-> setupCalls],
                               destinations)
           enabledDestinations == {destinations[n] : n \in DOMAIN destinations}
       IN /\ dstToWhRouter' = disableAbsent(st.routers, enabledDestinations)
          /\ setupCalls' = st.calls
    /\ lastSnapshot' = destinations
    /\ lastCall' = NoCall
    /\ UNCHANGED <<phase, isEnabled, routerVars, mapVars, dbVars, envVars, histVars,
                   taskVars, destType>>

\* ---------------------------------------------------------------- shutdown
\* Shutdown(), first statement: backgroundCancel() cancels the context of the tasks
\* Setup started.
Shutdown ==
    /\ phase = "running"
    /\ shutdownPc = "idle"
    /\ ctxDone' = TRUE
    /\ shutdownPc' = "waiting"
    /\ lastCall' = NoCall
    /\ UNCHANGED <<phase, isEnabled, routerVars, mapVars, dbVars, envVars, histVars,
                   exited, closed, terminated, workerChannelMapLock, inProgressMapLock, configSubscriberLock, trackedWarehouses, supervisorVars>>

\* The tenant manager, the config subscriber or the status tracker sees the
\* cancelled context and returns.
TaskExit(t) ==
    /\ phase = "running"
    /\ ctxDone
    /\ t \in {"tenantManager", "backendConfigSubscriber", "uploadStatusTrack"} \ exited
    /\ exited' = exited \cup {t}
    /\ lastCall' = NoCall
    /\ UNCHANGED <<phase, isEnabled, routerVars, mapVars, dbVars, envVars, histVars,
                   ctxDone, closed, terminated, shutdownPc, workerChannelMapLock, inProgressMapLock, configSubscriberLock, trackedWarehouses,
                   supervisorVars>>

\* mainLoop returns from the select after an iteration (or from its disabled sleep).
MainLoopExit ==
    /\ phase = "running"
    /\ ctxDone
    /\ "mainLoop" \notin exited
    /\ \A c \in Conns : creator[c].pc = "done"
    /\ exited' = exited \cup {"mainLoop"}
    /\ lastCall' = NoCall
    /\ UNCHANGED <<phase, isEnabled, routerVars, mapVars, dbVars, envVars, histVars,
                   ctxDone, closed, terminated, shutdownPc, workerChannelMapLock, inProgressMapLock, configSubscriberLock, trackedWarehouses,
                   supervisorVars>>

AllocatorExit_MidTick ==
    /\ phase = "running"
    /\ ctxDone
    /\ "runUploadJobAllocator" \notin exited
    /\ allocPc \in {"idle", "send"}
    /\ workerChannelMapLock = ""
    /\ closed' = channels
    /\ exited' = exited \cup {"runUploadJobAllocator"}
    /\ lastCall' = NoCall
    /\ UNCHANGED <<phase, isEnabled, routerVars, mapVars, dbVars, envVars, histVars,
                   ctxDone, terminated, shutdownPc, workerChannelMapLock, inProgressMapLock,
                   configSubscriberLock, trackedWarehouses, supervisorVars>>

\* runUploadJobAllocator breaks out of its loop at one of its selects, closes every
\* channel of wh.workerChannelMap and returns.
AllocatorExit ==
    /\ phase = "running"
    /\ ctxDone
    /\ "runUploadJobAllocator" \notin exited
    /\ allocPc = "idle"
    /\ workerChannelMapLock = ""
    /\ closed' = channels
    /\ exited' = exited \cup {"runUploadJobAllocator"}
    /\ lastCall' = NoCall
    /\ UNCHANGED <<phase, isEnabled, routerVars, mapVars, dbVars, envVars, histVars,
                   ctxDone, terminated, shutdownPc, workerChannelMapLock, inProgressMapLock, configSubscriberLock, trackedWarehouses, supervisorVars>>

\* A worker goroutine of initWorker that is not running a job finds its channel
\* closed and empty: its range loop ends and it returns.
WorkerTerminate(k) ==
    /\ phase = "running"
    /\ k \in closed
    /\ workerChannelMap[k] = <<>>
    /\ Len(running[k]) + terminated[k] < maxConcurrentUploadJobs
    /\ terminated' = [terminated EXCEPT ![k] = @ + 1]
    /\ lastCall' = NoCall
    /\ UNCHANGED <<phase, isEnabled, routerVars, mapVars, dbVars, envVars, histVars,
                   ctxDone, exited, closed, shutdownPc, workerChannelMapLock, inProgressMapLock, configSubscriberLock, trackedWarehouses,
                   supervisorVars>>

\* Shutdown(), second statement: backgroundWait(), the Wait of the group Setup made,
\* returns when the five tasks of that group have returned.
ShutdownReturn ==
    /\ phase = "running"
    /\ shutdownPc = "waiting"
    /\ Tasks \subseteq exited
    /\ shutdownPc' = "returned"
    /\ lastCall' = NoCall
    /\ UNCHANGED <<phase, isEnabled, routerVars, mapVars, dbVars, envVars, histVars,
                   ctxDone, exited, closed, terminated, workerChannelMapLock, inProgressMapLock, configSubscriberLock, trackedWarehouses,
                   supervisorVars>>

\* ------------------------------------------------------------ specification
\* The router under one change of configuration: both connections start in
\* namespace n1, a later snapshot moves c1 to n2 or drops it.  Whole creator passes,
\* the allocator and the workers; maxConcurrentUploadJobs is 1 or 2; no trigger, no
\* degraded workspace, the clock stands still.
Init == InitWith({FALSE}, 1..MaxConcurrent, {1}, {MaxWorkers})

Next ==
    \/ SetupInterrupted
    \/ SetupReset
    \/ \E c \in Conns : AddStagingFile(c, TRUE)
    \/ /\ ~initialConfigFetched
       /\ BackendConfigSubscriber([c \in Conns |-> "n1"])
    \/ /\ warehouses = [c \in Conns |-> "n1"]
       /\ \E ns \in {"n2", NoNamespace} :
             BackendConfigSubscriber([c \in Conns |-> IF c = "c1" THEN ns ELSE "n1"])
    \/ \E c \in Conns : CreateJobs(c, 0)
    \/ AllocatorTick
    \/ AllocatorSend
    \/ \E k \in Identifiers : WorkerReceive(k)
    \/ \E k \in Identifiers, idx \in 1..MaxConcurrent,
          outcome \in {ExportedData, ExportingDataFailed} : WorkerDone(k, idx, outcome, 0)

Spec == Init /\ [][Next]_vars

\* The selection by priority: multi-source pickup (c1 and c2 are two partitions),
\* one or two workers, manual triggers for c1 (priority 50 against the default 100), a
\* registry that starts with both connections in namespace n1 and may later lose c1;
\* maxConcurrentUploadJobs is 1, no workspace is degraded, the clock stands still.
InitSelect == InitWith({TRUE}, {1}, {1}, 1..MaxWorkers)

NextSelect ==
    \/ SetupInterrupted
    \/ SetupReset
    \/ \E c \in Conns : AddStagingFile(c, TRUE)
    \/ TriggerUpload("c1")
    \/ /\ ~initialConfigFetched
       /\ BackendConfigSubscriber([c \in Conns |-> "n1"])
    \/ /\ initialConfigFetched
       /\ BackendConfigSubscriber([c \in Conns |-> IF c = "c1" THEN NoNamespace ELSE "n1"])
    \/ \E c \in Conns : CreateJobs(c, 0)
    \/ AllocatorTick
    \/ AllocatorSend
    \/ \E k \in Identifiers : WorkerReceive(k)
    \/ \E k \in Identifiers,
          outcome \in {ExportedData, ExportingDataFailed} : WorkerDone(k, 1, outcome, 0)

SpecSelect == InitSelect /\ [][NextSelect]_vars

\* The selection under a degraded-workspace oracle that changes its answer at any
\* time: both pickup modes, the registry fetched once, maxConcurrentUploadJobs 1, the
\* clock stands still.
InitDegraded == InitWith(BOOLEAN, {1}, {1}, {MaxWorkers})

NextDegraded ==
    \/ SetupInterrupted
    \/ SetupReset
    \/ \E c \in Conns : AddStagingFile(c, TRUE)
    \/ \E ws \in SUBSET Workspaces : SetDegraded(ws)
    \/ /\ ~initialConfigFetched
       /\ BackendConfigSubscriber([c \in Conns |-> "n1"])
    \/ \E c \in Conns : CreateJobs(c, 0)
    \/ AllocatorTick
    \/ AllocatorSend
    \/ \E k \in Identifiers : WorkerReceive(k)
    \/ \E k \in Identifiers,
          outcome \in {ExportedData, ExportingDataFailed} : WorkerDone(k, 1, outcome, 0)

SpecDegraded == InitDegraded /\ [][NextDegraded]_vars

\* The creator in its steps (mainLoop, the gate and deletion under the lock, the
\* fetch and inserts after it) against the allocator and the workers.  Only c1 is in
\* the registry, fetched once; c2's staging files take ids in between c1's.  Staging
\* files of either storage kind, a batch size of 1 or 2, failing fetches, manual
\* triggers; maxConcurrentUploadJobs is 1, the clock stands still, so a second pass
\* for c1 needs a trigger.
InitCreator == InitWith({FALSE}, {1}, 1..MaxBatch, {MaxWorkers})

NextCreator ==
    \/ SetupInterrupted
    \/ SetupReset
    \/ \E urs \in BOOLEAN : AddStagingFile("c1", urs)
    \/ AddStagingFile("c2", TRUE)
    \/ /\ ~initialConfigFetched
       /\ BackendConfigSubscriber([c \in Conns |-> IF c = "c1" THEN "n1" ELSE NoNamespace])
    \/ TriggerUpload("c1")
    \/ MainLoop
    \/ CreateJobsGate("c1", TRUE)
    \/ \E fetchError \in BOOLEAN : CreateJobsInsert("c1", fetchError, 0)
    \/ AllocatorTick
    \/ AllocatorSend
    \/ \E k \in Identifiers : WorkerReceive(k)
    \/ \E k \in Identifiers,
          outcome \in {ExportedData, ExportingDataFailed} : WorkerDone(k, 1, outcome, 0)

SpecCreator == InitCreator /\ [][NextCreator]_vars

\* Stops and restarts of the process, and the supervisor's Enable and Disable calls,
\* against the creator in its steps, the allocator and the workers.  Only c1 is in
\* the registry; crash recovery of an interrupted destination succeeds or fails;
\* maxConcurrentUploadJobs is 1, the clock stands still.
InitBoot == InitWith({FALSE}, {1}, {1}, {MaxWorkers})

NextBoot ==
    \/ SetupInterrupted
    \/ SetupReset
    \/ Crash
    \/ Enable
    \/ Disable
    \/ AddStagingFile("c1", TRUE)
    \/ BackendConfigSubscriber([c \in Conns |-> IF c = "c1" THEN "n1" ELSE NoNamespace])
    \/ MainLoop
    \/ \E recovered \in BOOLEAN : CreateJobsGate("c1", recovered)
    \/ CreateJobsInsert("c1", FALSE, 0)
    \/ AllocatorTick
    \/ AllocatorSend
    \/ \E k \in Identifiers : WorkerReceive(k)
    \/ \E k \in Identifiers : WorkerExport(k, 1)
    \/ \E k \in Identifiers,
          outcome \in {ExportedData, ExportingDataFailed} : WorkerDone(k, 1, outcome, 0)

SpecBoot == InitBoot /\ [][NextBoot]_vars

\* The frequency gate: the creator in its steps for c1, the only connection of the
\* registry, while the clock advances, with sync jitter of 0..MaxJitter seconds,
\* failing fetches, manual triggers, and stops and restarts of the process.  No job
\* is allocated.
InitGate == InitWith({FALSE}, {1}, {1}, {MaxWorkers})

NextGate ==
    \/ SetupInterrupted
    \/ SetupReset
    \/ Crash
    \/ Tick
    \/ AddStagingFile("c1", TRUE)
    \/ BackendConfigSubscriber([c \in Conns |-> IF c = "c1" THEN "n1" ELSE NoNamespace])
    \/ TriggerUpload("c1")
    \/ MainLoop
    \/ CreateJobsGate("c1", TRUE)
    \/ \E fetchError \in BOOLEAN, jitter \in 0..MaxJitter :
          CreateJobsInsert("c1", fetchError, jitter)

SpecGate == InitGate /\ [][NextGate]_vars

\* The carry-forward of a deleted waiting job's priority: the creator in its steps
\* for c1, the only connection of the registry, with manual triggers and failing
\* fetches, while the clock advances past the sync frequency, against the allocator
\* and the workers, whose jobs all succeed; maxConcurrentUploadJobs is 1, batch size
\* 1, no jitter.
InitCarry == InitWith({FALSE}, {1}, {1}, {MaxWorkers})

NextCarry ==
    \/ SetupInterrupted
    \/ SetupReset
    \/ Tick
    \/ AddStagingFile("c1", TRUE)
    \/ /\ ~initialConfigFetched
       /\ BackendConfigSubscriber([c \in Conns |-> IF c = "c1" THEN "n1" ELSE NoNamespace])
    \/ TriggerUpload("c1")
    \/ MainLoop
    \/ CreateJobsGate("c1", TRUE)
    \/ \E fetchError \in BOOLEAN : CreateJobsInsert("c1", fetchError, 0)
    \/ AllocatorTick
    \/ AllocatorSend
    \/ \E k \in Identifiers : WorkerReceive(k)
    \/ \E k \in Identifiers : WorkerDone(k, 1, ExportedData, 0)

SpecCarry == InitCarry /\ [][NextCarry]_vars

\* The manual trigger through a creator pass of every kind: the creator in its steps
\* for c1, the only connection of the registry, with passes that find no pending
\* file, fail in crash recovery, fail in the fetch, or insert; stops and restarts of
\* the process; the allocator and the workers, whose jobs reach the export phase.
\* maxConcurrentUploadJobs is 1, batch size 1, the clock stands still.
InitTrigger == InitWith({FALSE}, {1}, {1}, {MaxWorkers})

NextTrigger ==
    \/ SetupInterrupted
    \/ SetupReset
    \/ Crash
    \/ AddStagingFile("c1", TRUE)
    \/ BackendConfigSubscriber([c \in Conns |-> IF c = "c1" THEN "n1" ELSE NoNamespace])
    \/ TriggerUpload("c1")
    \/ MainLoop
    \/ \E recovered \in BOOLEAN : CreateJobsGate("c1", recovered)
    \/ \E fetchError \in BOOLEAN : CreateJobsInsert("c1", fetchError, 0)
    \/ AllocatorTick
    \/ AllocatorSend
    \/ \E k \in Identifiers : WorkerReceive(k)
    \/ \E k \in Identifiers : WorkerExport(k, 1)
    \/ \E k \in Identifiers : WorkerDone(k, 1, ExportedData, 0)

SpecTrigger == InitTrigger /\ [][NextTrigger]_vars

\* Shutdown of a running router: one connection, whole creator passes, the
\* allocator and the worker pools (maxConcurrentUploadJobs 1 or 2), and a call of
\* Shutdown() at any point.
InitShutdown == InitWith({FALSE}, 1..MaxConcurrent, {1}, {MaxWorkers})

NextShutdown ==
    \/ SetupInterrupted
    \/ SetupReset
    \/ AddStagingFile("c1", TRUE)
    \/ BackendConfigSubscriber([c \in Conns |-> IF c = "c1" THEN "n1" ELSE NoNamespace])
    \/ CreateJobs("c1", 0)
    \/ AllocatorTick
    \/ AllocatorSend
    \/ \E k \in Identifiers : WorkerReceive(k)
    \/ \E k \in Identifiers, idx \in 1..MaxConcurrent,
          outcome \in {ExportedData, ExportingDataFailed} : WorkerDone(k, idx, outcome, 0)
    \/ Shutdown
    \/ \E t \in Tasks : TaskExit(t)
    \/ MainLoopExit
    \/ AllocatorExit
    \/ \E k \in Identifiers : WorkerTerminate(k)
    \/ ShutdownReturn

SpecShutdown == InitShutdown /\ [][NextShutdown]_vars

\* The router supervisor over any sequence of config snapshots, each a list of up to
\* MaxDests destinations of three warehouse types and one other type.
InitSupervisor == InitWith({FALSE}, {1}, {1}, {MaxWorkers})

Snapshots == UNION {[1..n -> DestinationTypes] : n \in 0..MaxDests}

NextSupervisor == \E destinations \in Snapshots : OnConfigDataEvent(destinations)

SpecSupervisor == InitSupervisor /\ [][NextSupervisor]_vars

\* The allocator's send loop in its steps, with a channel buffer of
\* ChannelCapacity, against the config subscriber, which needs
\* wh.workerChannelMapLock for every connection of a snapshot: both connections in
\* namespace n1, then c1 moves to n2; whole creator passes and the workers;
\* maxConcurrentUploadJobs is 1 or 2.
InitLocks == InitWith({FALSE}, 1..MaxConcurrent, {1}, {MaxWorkers})

NextLocks ==
    \/ SetupInterrupted
    \/ SetupReset
    \/ \E c \in Conns : AddStagingFile(c, TRUE)
    \/ /\ ~initialConfigFetched
       /\ BackendConfigSubscriber([c \in Conns |-> "n1"])
    \/ /\ warehouses = [c \in Conns |-> "n1"]
       /\ BackendConfigSubscriber([c \in Conns |-> IF c = "c1" THEN "n2" ELSE "n1"])
    \/ \E c \in Conns : CreateJobs(c, 0)
    \/ AllocatorTick
    \/ AllocatorSendLock
    \/ AllocatorSendOne
    \/ AllocatorSendEnd
    \/ \E k \in Identifiers : WorkerReceive(k)
    \/ \E k \in Identifiers, idx \in 1..MaxConcurrent : WorkerDone(k, idx, ExportedData, 0)

SpecLocks == InitLocks /\ [][NextLocks]_vars

\* The supervisor's Enable and Disable calls at any point of a run, against the
\* creator in its steps, the allocator and the workers.  Only c1 is in the registry;
\* maxConcurrentUploadJobs is 1, the clock stands still.
InitDisable == InitWith({FALSE}, {1}, {1}, {MaxWorkers})

NextDisable ==
    \/ SetupInterrupted
    \/ SetupReset
    \/ Enable
    \/ Disable
    \/ AddStagingFile("c1", TRUE)
    \/ BackendConfigSubscriber([c \in Conns |-> IF c = "c1" THEN "n1" ELSE NoNamespace])
    \/ MainLoop
    \/ CreateJobsGate("c1", TRUE)
    \/ CreateJobsInsert("c1", FALSE, 0)
    \/ AllocatorTick
    \/ AllocatorSend
    \/ \E k \in Identifiers : WorkerReceive(k)
    \/ \E k \in Identifiers,
          outcome \in {ExportedData, ExportingDataFailed} : WorkerDone(k, 1, outcome, 0)

SpecDisable == InitDisable /\ [][NextDisable]_vars

\* The creator in its steps against the allocator and the workers while the
\* registry changes: c1, the only connection, starts in namespace n1 and a later
\* snapshot moves it to n2.  Manual triggers let a second pass through the gate;
\* maxConcurrentUploadJobs is 1, batch size 1, the clock stands still.
InitNamespace == InitWith({FALSE}, {1}, {1}, {MaxWorkers})

NextNamespace ==
    \/ SetupInterrupted
    \/ SetupReset
    \/ AddStagingFile("c1", TRUE)
    \/ /\ ~initialConfigFetched
       /\ BackendConfigSubscriber([c \in Conns |-> IF c = "c1" THEN "n1" ELSE NoNamespace])
    \/ /\ initialConfigFetched
       /\ BackendConfigSubscriber([c \in Conns |-> IF c = "c1" THEN "n2" ELSE NoNamespace])
    \/ TriggerUpload("c1")
    \/ MainLoop
    \/ CreateJobsGate("c1", TRUE)
    \/ CreateJobsInsert("c1", FALSE, 0)
    \/ AllocatorTick
    \/ AllocatorSend
    \/ \E k \in Identifiers : WorkerReceive(k)
    \/ \E k \in Identifiers,
          outcome \in {ExportedData, ExportingDataFailed} : WorkerDone(k, 1, outcome, 0)

SpecNamespace == InitNamespace /\ [][NextNamespace]_vars

\* The worker channels over any sequence of config snapshots, each giving every
\* connection a namespace or leaving it out, with one staging file and whole creator
\* passes for c1, the allocator, worker pools of 1 or 2 workers, and a call of
\* Shutdown() at any point.
InitChannels == InitWith({FALSE}, 1..MaxConcurrent, {1}, {MaxWorkers})

NextChannels ==
    \/ SetupInterrupted
    \/ SetupReset
    \/ /\ stagingFiles = <<>>
       /\ AddStagingFile("c1", TRUE)
    \/ \E snapshot \in [Conns -> Namespaces \cup {NoNamespace}] :
          BackendConfigSubscriber(snapshot)
    \/ CreateJobs("c1", 0)
    \/ AllocatorTick
    \/ AllocatorSend
    \/ \E k \in Identifiers : WorkerReceive(k)
    \/ \E k \in Identifiers, idx \in 1..MaxConcurrent : WorkerDone(k, idx, ExportedData, 0)
    \/ Shutdown
    \/ \E t \in Tasks : TaskExit(t)
    \/ MainLoopExit
    \/ AllocatorExit
    \/ \E k \in Identifiers : WorkerTerminate(k)
    \/ ShutdownReturn

SpecChannels == InitChannels /\ [][NextChannels]_vars

\* Crash recovery: stops and restarts of the process while jobs are in the export
\* phase, and the creator in its steps for two connections of one destination, each
\* pass with a CrashRecover that succeeds or fails; the allocator and the workers.
\* maxConcurrentUploadJobs is 1, batch size 1, the clock stands still.
InitRecover == InitWith({FALSE}, {1}, {1}, {MaxWorkers})

NextRecover ==
    \/ SetupInterrupted
    \/ SetupReset
    \/ Crash
    \/ \E c \in Conns : AddStagingFile(c, TRUE)
    \/ /\ ~initialConfigFetched
       /\ BackendConfigSubscriber([c \in Conns |-> "n1"])
    \/ MainLoop
    \/ \E c \in Conns, recovered \in BOOLEAN : CreateJobsGate(c, recovered)
    \/ \E c \in Conns : CreateJobsInsert(c, FALSE, 0)
    \/ AllocatorTick
    \/ AllocatorSend
    \/ \E k \in Identifiers : WorkerReceive(k)
    \/ \E k \in Identifiers : WorkerExport(k, 1)
    \/ \E k \in Identifiers : WorkerDone(k, 1, ExportedData, 0)

SpecRecover == InitRecover /\ [][NextRecover]_vars

\* Boot-time recovery for a router of a crash-recovery type (RS) and of another
\* type (BQ): stops and restarts of the process while jobs are claimed, run, in the
\* export phase or failed, the creator in its steps for c1 with a CrashRecover that
\* succeeds or fails, the allocator and the workers.  maxConcurrentUploadJobs is 1.
InitSetup == InitWithType({"RS", "BQ"}, {FALSE}, {1}, {1}, {MaxWorkers})

NextSetup ==
    \/ SetupInterrupted
    \/ SetupReset
    \/ Crash
    \/ AddStagingFile("c1", TRUE)
    \/ BackendConfigSubscriber([c \in Conns |-> IF c = "c1" THEN "n1" ELSE NoNamespace])
    \/ MainLoop
    \/ \E recovered \in BOOLEAN : CreateJobsGate("c1", recovered)
    \/ CreateJobsInsert("c1", FALSE, 0)
    \/ AllocatorTick
    \/ AllocatorSend
    \/ \E k \in Identifiers : WorkerReceive(k)
    \/ \E k \in Identifiers : WorkerExport(k, 1)
    \/ \E k \in Identifiers,
          outcome \in {ExportedData, ExportingDataFailed} : WorkerDone(k, 1, outcome, 0)

SpecSetup == InitSetup /\ [][NextSetup]_vars

\* The first config snapshot in its steps (applied, then initialConfigFetched set)
\* and later snapshots, against whole creator passes, the allocator and the workers,
\* with stops and restarts of the process.  The first snapshot of a run has c1 in
\* namespace n1, with or without c2; later ones may drop c1.
InitConfig == InitWith({FALSE}, {1}, {1}, {MaxWorkers})

NextConfig ==
    \/ SetupInterrupted
    \/ SetupReset
    \/ Crash
    \/ AddStagingFile("c1", TRUE)
    \/ \E ns \in {"n1", NoNamespace} :
          BackendConfigApply([c \in Conns |-> IF c = "c1" THEN "n1" ELSE ns])
    \/ BackendConfigFetched
    \/ /\ initialConfigFetched
       /\ \E ns \in {"n1", NoNamespace} :
             BackendConfigSubscriber([c \in Conns |-> IF c = "c1" THEN ns ELSE "n1"])
    \/ CreateJobs("c1", 0)
    \/ AllocatorTick
    \/ AllocatorSend
    \/ \E k \in Identifiers : WorkerReceive(k)
    \/ \E k \in Identifiers,
          outcome \in {ExportedData, ExportingDataFailed} : WorkerDone(k, 1, outcome, 0)

SpecConfig == InitConfig /\ [][NextConfig]_vars

\* A router whose selection can fail.  The panic of the allocator ends the process
\* (Crash); until then the other tasks go on, except that createJobs waits for
\* areBeingEnqueuedLock, which the allocator held when it panicked.  Connection c1
\* leaves the registry after the first snapshot.
MaxFailAt == 3

InitPanic == InitWith({TRUE}, {1}, {1}, {MaxWorkers})

NextPanic ==
    \/ SetupInterrupted
    \/ SetupReset
    \/ Crash
    \/ \E c \in Conns : /\ Len(stagingFiles) < 2
                        /\ AddStagingFile(c, TRUE)
    \/ /\ ~initialConfigFetched
       /\ BackendConfigSubscriber([c \in Conns |-> "n1"])
    \/ /\ initialConfigFetched
       /\ BackendConfigSubscriber([c \in Conns |-> IF c = "c1" THEN NoNamespace ELSE "n1"])
    \/ \E c \in Conns : /\ allocPc # "panicked"
                        /\ CreateJobs(c, 0)
    \/ AllocatorTick
    \/ \E failAt \in 0..MaxFailAt : AllocatorSelectError(failAt)
    \/ AllocatorSend
    \/ \E k \in Identifiers : WorkerReceive(k)
    \/ \E k \in Identifiers : WorkerDone(k, 1, ExportedData, 0)

SpecPanic == InitPanic /\ [][NextPanic]_vars

\* A router whose clock advances, whose passes insert with sync jitter and whose
\* loader fails a job with a retry time of 0..MaxRetryDelay seconds ahead.
MaxRetryDelay == 1

InitRetry == InitWith({TRUE}, {1}, {1}, {MaxWorkers})

NextRetry ==
    \/ SetupInterrupted
    \/ SetupReset
    \/ Tick
    \/ \E c \in Conns : /\ Len(stagingFiles) < 2
                        /\ AddStagingFile(c, TRUE)
    \/ /\ ~initialConfigFetched
       /\ BackendConfigSubscriber([c \in Conns |-> "n1"])
    \/ \E c \in Conns, jitter \in 0..MaxJitter : CreateJobs(c, jitter)
    \/ AllocatorTick
    \/ AllocatorSend
    \/ \E k \in Identifiers : WorkerReceive(k)
    \/ \E k \in Identifiers, outcome \in {ExportedData, ExportingDataFailed},
          retryDelay \in 0..MaxRetryDelay : WorkerDone(k, 1, outcome, retryDelay)

SpecRetry == InitRetry /\ [][NextRetry]_vars

\* A router with one or two workers and two partitions under fair scheduling: the
\* allocator's loop keeps ticking and sending (warehouse.go:1157-1207), a worker
\* keeps receiving from its channel (warehouse.go:263-280), and every run of the
\* loader returns, with a success or with a failure whose retry time has passed.
InitFair == InitWith({TRUE}, {1}, {1}, 1..MaxWorkers)

NextFair ==
    \/ SetupInterrupted
    \/ SetupReset
    \/ \E c \in Conns : /\ Len(stagingFiles) < 2
                        /\ AddStagingFile(c, TRUE)
    \/ /\ ~initialConfigFetched
       /\ BackendConfigSubscriber([c \in Conns |-> "n1"])
    \/ \E c \in Conns : CreateJobs(c, 0)
    \/ AllocatorTick
    \/ AllocatorSend
    \/ \E k \in Identifiers : WorkerReceive(k)
    \/ \E k \in Identifiers,
          outcome \in {ExportedData, ExportingDataFailed} : WorkerDone(k, 1, outcome, 0)

\* The in-progress index and its lock: the worker ends a job in two steps, holding
\* wh.inProgressMapLock in between; the allocator's tick, which takes the lock in
\* getInProgressNamespaces and in setDestInProgress, waits for it; the creator's pass
\* is the code's, which does not take it.  Only c1 is in the registry.
InitRace == InitWith({FALSE}, {1}, {1}, {MaxWorkers})

NextRace ==
    \/ SetupInterrupted
    \/ SetupReset
    \/ /\ Len(stagingFiles) < 2
       /\ AddStagingFile("c1", TRUE)
    \/ /\ ~initialConfigFetched
       /\ BackendConfigSubscriber([c \in Conns |-> IF c = "c1" THEN "n1" ELSE NoNamespace])
    \/ TriggerUpload("c1")
    \/ MainLoop
    \/ CreateJobsGate("c1", TRUE)
    \/ CreateJobsInsert("c1", FALSE, 0)
    \/ /\ inProgressMapLock = NoHolder
       /\ AllocatorTick
    \/ AllocatorSend
    \/ \E k \in Identifiers : WorkerReceive(k)
    \/ \E k \in Identifiers,
          outcome \in {ExportedData, ExportingDataFailed} : WorkerReturn(k, 1, outcome)
    \/ \E k \in Identifiers : WorkerRemoved(k)

SpecRace == InitRace /\ [][NextRace]_vars

\* The registry and its lock: the subscriber applies a snapshot statement by
\* statement under configSubscriberLock; mainLoop and the allocator's lookup, which
\* take the shared lock, wait while it is held; uploadStatusTrack is the code's, which
\* does not take it.  The snapshots have both connections, c1 in n1 or in n2.
SnapshotsOffered ==
    {[c \in Conns |-> IF c = "c1" THEN ns ELSE "n1"] : ns \in Namespaces}

InitSnapshot == InitWith({FALSE}, {1}, {1}, {MaxWorkers})

NextSnapshot ==
    \/ SetupInterrupted
    \/ SetupReset
    \/ \E c \in Conns : /\ Len(stagingFiles) < 2
                        /\ AddStagingFile(c, TRUE)
    \/ \E snapshot \in SnapshotsOffered :
          /\ snapshot # warehouses \/ ~initialConfigFetched
          /\ BackendConfigLock(snapshot)
    \/ BackendConfigAppend
    \/ BackendConfigUnlock
    \/ UploadStatusTrack
    \/ \E c \in Conns : /\ configSubscriberLock = NoHolder
                        /\ CreateJobs(c, 0)
    \/ /\ configSubscriberLock = NoHolder
       /\ AllocatorTick
    \/ AllocatorSend
    \/ \E k \in Identifiers : WorkerReceive(k)
    \/ \E k \in Identifiers : WorkerDone(k, 1, ExportedData, 0)

SpecSnapshot == InitSnapshot /\ [][NextSnapshot]_vars

SpecFair ==
    /\ InitFair
    /\ [][NextFair]_vars
    /\ WF_vars(AllocatorTick)
    /\ WF_vars(AllocatorSend)
    /\ \A k \in Identifiers : WF_vars(WorkerReceive(k))
    /\ \A k \in Identifiers :
          WF_vars(\E outcome \in {ExportedData, ExportingDataFailed} :
                     WorkerDone(k, 1, outcome, 0))

\* ------------------------------------------------------------------ claims
\* The job ids an identifier's in-progress list, channel or workers hold.
Elems(seq) == {seq[n] : n \in DOMAIN seq}

\* Jobs the allocator has claimed and no worker has finished: the in-progress index.
InFlight == UNION {Elems(inProgressMap[k]) : k \in Identifiers}

InFlightOf(p) ==
    {id \in InFlight \cap DOMAIN uploads : partitionIdentifier(uploads[id]) = p}

\* C1 (partition exclusivity): in every reachable state, for every partition key, at
\* most maxConcurrentUploadJobs jobs of that partition are claimed and unfinished.
C1_PartitionExclusivity ==
    \A p \in Identifiers : Cardinality(InFlightOf(p)) <= maxConcurrentUploadJobs

\* C2 (single ownership): no job id occurs twice in the in-progress index, and no
\* job is run by two workers at the same time.
C2_SingleOwnership ==
    \A k1 \in Identifiers, k2 \in Identifiers :
        /\ \A i \in DOMAIN inProgressMap[k1], j \in DOMAIN inProgressMap[k2] :
              (k1 # k2 \/ i # j) => inProgressMap[k1][i] # inProgressMap[k2][j]
        /\ \A i \in DOMAIN running[k1], j \in DOMAIN running[k2] :
              (k1 # k2 \/ i # j) => running[k1][i] # running[k2][j]

IsTerminal(rows, id) == id \in DOMAIN rows /\ rows[id].status \in TerminalStatuses

\* C9 (terminal jobs are left alone): a job whose status is exported_data or aborted
\* is not among the jobs a tick's selection returns, is not appended to an
\* in-progress list and is not appended to a worker channel, in any step.
C9_TerminalNeverScheduled ==
    [][/\ uploadJobsToProcess' # uploadJobsToProcess =>
             \A n \in DOMAIN uploadJobsToProcess' :
                 ~IsTerminal(uploads, uploadJobsToProcess'[n].id)
       /\ \A k \in Identifiers :
             /\ \A n \in (Len(inProgressMap[k]) + 1)..Len(inProgressMap'[k]) :
                   ~IsTerminal(uploads, inProgressMap'[k][n])
             /\ \A n \in (Len(workerChannelMap[k]) + 1)..Len(workerChannelMap'[k]) :
                   ~IsTerminal(uploads, workerChannelMap'[k][n])]_vars

\* C3 (range non-overlap): any two rows of wh_uploads of one connection (source,
\* destination) have disjoint [start_staging_file_id, end_staging_file_id] intervals.
C3_RangesDisjoint ==
    \A i \in DOMAIN uploads, j \in DOMAIN uploads :
        (i # j /\ uploads[i].conn = uploads[j].conn) =>
            \/ uploads[i].end < uploads[j].start
            \/ uploads[j].end < uploads[i].start

\* Two rows of one connection, the earlier one exported by a worker, the later one
\* inserted after a waiting job between them was deleted.
C3_Witness ==
    \E i \in DOMAIN uploads, j \in DOMAIN uploads :
        /\ i < j
        /\ uploads[i].conn = uploads[j].conn
        /\ uploads[i].status = ExportedData
        /\ \E d \in (i + 1)..(j - 1) : d \notin DOMAIN uploads

\* C10 (batching): a pass that fetches N >= 1 pending staging files of one storage
\* kind inserts ceil(N / stagingFilesBatchSize) rows, all waiting; the m-th row
\* starts at the ((m-1)*size + 1)-th file and ends at the min(m*size, N)-th; without a
\* trigger and a carried-forward priority every row has priority 100.
C10_Batching ==
    [][nextJobId' > nextJobId =>
          LET c == uploads'[nextJobId].conn
              list == getPendingStagingFiles(uploads, stagingFiles, c)
              N == Len(list)
              size == stagingFilesBatchSize
              count == (N + size - 1) \div size
          IN (\A n \in 1..N : list[n].useRudderStorage = list[1].useRudderStorage) =>
                /\ N >= 1
                /\ nextJobId' - nextJobId = count
                /\ \A m \in 1..count :
                      LET row == uploads'[nextJobId + m - 1]
                          last == IF m * size < N THEN m * size ELSE N
                      IN /\ row.conn = c
                         /\ row.status = Waiting
                         /\ row.start = list[(m - 1) * size + 1].id
                         /\ row.end = list[last].id
                         /\ (c \notin triggerUploadsMap /\ creator[c].priority = 0) =>
                                Priority(row) = DefaultPriority]_vars

\* Three staging files of one connection and one storage kind, batch size 2: the
\* rows [1..2] and [3..3], both waiting, with the default priority.
C10_Witness ==
    /\ stagingFilesBatchSize = 2
    /\ Len(stagingFiles) = 3
    /\ \A n \in 1..3 : stagingFiles[n] = stagingFiles[1]
    /\ triggerUploadsMap = {}
    /\ \E i \in DOMAIN uploads :
          /\ i + 1 \in DOMAIN uploads
          /\ uploads[i].start = 1 /\ uploads[i].end = 2
          /\ uploads[i + 1].start = 3 /\ uploads[i + 1].end = 3
          /\ uploads[i].status = Waiting /\ uploads[i + 1].status = Waiting
          /\ Priority(uploads[i]) = DefaultPriority
          /\ Priority(uploads[i + 1]) = DefaultPriority

\* An allocator tick: the step from the selection to the sends.
IsTick == allocPc = "idle" /\ allocPc' = "send"

\* The rows that pass the selection's filter at the tick that starts in this state.
SelectableNow == Selectable(uploads, getInProgressNamespaces, degradedWorkspaces, now)

\* The jobs the tick has claimed: those it hands to the sends.
Claimed == {uploadJobsToProcess[n].id : n \in DOMAIN uploadJobsToProcess}

\* C4 as the specification states it: for selectable jobs A and B of distinct
\* partitions with priority(A) < priority(B), a tick that claims B claims A.
C4_PriorityMonotonicity ==
    [][IsTick =>
          \A A \in SelectableNow, B \in SelectableNow :
              (/\ partitionIdentifier(uploads[A]) # partitionIdentifier(uploads[B])
               /\ Priority(uploads[A]) < Priority(uploads[B])
               /\ B \in Claimed') => A \in Claimed']_vars

\* C4, amended: the same for a job A that is the first of its partition in
\* (priority, id) order among the selectable rows and whose connection is in the
\* registry.
C4_PriorityMonotonicityOfFirsts ==
    [][IsTick =>
          \A A \in SelectableNow, B \in SelectableNow :
              (/\ partitionIdentifier(uploads[A]) # partitionIdentifier(uploads[B])
               /\ Priority(uploads[A]) < Priority(uploads[B])
               /\ \A X \in SelectableNow \ {A} :
                     partitionIdentifier(uploads[X]) = partitionIdentifier(uploads[A])
                         => Before(uploads, A, X)
               /\ warehouses[uploads[A].conn] # NoNamespace
               /\ B \in Claimed') => A \in Claimed']_vars

\* A tick has claimed a default-priority job of one partition together with a
\* triggered (priority 50) job of another.
C4_Witness ==
    /\ allocPc = "send"
    /\ \E A \in Claimed, B \in Claimed :
          /\ A \in DOMAIN uploads /\ B \in DOMAIN uploads
          /\ partitionIdentifier(uploads[A]) # partitionIdentifier(uploads[B])
          /\ Priority(uploads[A]) = TriggeredPriority
          /\ Priority(uploads[B]) = DefaultPriority

Inserts(c) == nextJobId' > nextJobId /\ uploads'[nextJobId].conn = c

\* C6 (restart safety): from the end of Setup's reset until the allocator's first
\* tick no row of wh_uploads has in_progress = true.
C6_RestartSafety ==
    (phase = "running" /\ ~allocTicked) =>
        \A i \in DOMAIN uploads : ~uploads[i].in_progress

\* Setup has run over rows that were in progress, in the export phase, when the process
\* stopped, and the allocator has not ticked yet.
C6_Witness ==
    /\ phase = "running"
    /\ ~allocTicked
    /\ inRecoveryMap # {}
    /\ \E i \in DOMAIN uploads : uploads[i].status = ExportingData

\* C7 as the specification states it: a pass that inserts rows for c without a manual
\* trigger comes at least the sync frequency after the previous pass that inserted
\* rows for c.
C7_FrequencyGate ==
    [][\A c \in Conns :
          (Inserts(c) /\ lastCreatedAt[c] # -1 /\ c \notin triggerUploadsMap) =>
              now - lastCreatedAt[c] >= uploadFreqInS]_vars

\* C7, amended: the same for two passes of one run of the process.
C7_FrequencyGateWithinRun ==
    [][\A c \in Conns :
          (Inserts(c) /\ passesInRun[c] > 0 /\ c \notin triggerUploadsMap) =>
              now - lastCreatedAt[c] >= uploadFreqInS]_vars

\* A second pass of one run has inserted rows for c1 without a trigger and without a
\* carried-forward priority, the sync frequency or more after the run began.
C7_Witness ==
    /\ passesInRun["c1"] >= 2
    /\ lastCreatedAt["c1"] >= uploadFreqInS
    /\ nextJobId - 1 \in DOMAIN uploads
    /\ uploads[nextJobId - 1].conn = "c1"
    /\ uploads[nextJobId - 1].priority = 0

\* The scheduler state Enable and Disable must leave alone.
OtherSchedulerState == <<phase, routerVars, mapVars, dbVars, envVars, histVars, taskVars>>

\* C8 (Enable and Disable are idempotent): a call of Enable leaves isEnabled true, a
\* call of Disable leaves it false, neither changes any other scheduler state, and a
\* call that follows a call of the same kind changes nothing at all.
C8_EnableDisableIdempotent ==
    [][/\ lastCall'[1] = "Enable" => isEnabled' /\ UNCHANGED OtherSchedulerState
       /\ lastCall'[1] = "Disable" => ~isEnabled' /\ UNCHANGED OtherSchedulerState
       /\ (lastCall'[1] # "none" /\ lastCall'[1] = lastCall[1]) =>
             UNCHANGED <<isEnabled, OtherSchedulerState>>]_vars

\* Disable has been called twice in a row while a job is claimed and a worker runs.
C8_Witness ==
    /\ lastCall = <<"Disable", 2>>
    /\ ~isEnabled
    /\ InFlight # {}
    /\ activeWorkerCount > 0

\* The rows a pass inserts in this step: the ids the sequence hands out.
InsertedIds == nextJobId..(nextJobId' - 1)

\* C11 (storage-change split): in every pass that inserts rows, no inserted row
\* covers staging files of the connection with different useRudderStorage values; at
\* every position of the fetched list where useRudderStorage differs from the
\* previous file a row starts, whatever the batch size; and every inserted row covers
\* at least one fetched file (its range starts and ends at fetched files, in order).
C11_StorageChangeSplit ==
    [][nextJobId' > nextJobId =>
          LET c == uploads'[nextJobId].conn
              list == getPendingStagingFiles(uploads, stagingFiles, c)
              ids == {list[n].id : n \in DOMAIN list}
          IN /\ \A i \in InsertedIds :
                    /\ uploads'[i].start \in ids
                    /\ uploads'[i].end \in ids
                    /\ uploads'[i].start <= uploads'[i].end
                    /\ \A f \in ids, g \in ids :
                          (/\ uploads'[i].start <= f /\ f <= uploads'[i].end
                           /\ uploads'[i].start <= g /\ g <= uploads'[i].end) =>
                              stagingFiles[f].useRudderStorage = stagingFiles[g].useRudderStorage
             /\ \A n \in 2..Len(list) :
                    list[n].useRudderStorage # list[n - 1].useRudderStorage =>
                        \E i \in InsertedIds : uploads'[i].start = list[n].id]_vars

\* One pass with batch size 2 over three files of c1, the first in the customer's
\* storage and the next two in the platform's: the rows [1..1] and [2..3].
C11_Witness ==
    /\ stagingFilesBatchSize = 2
    /\ Len(stagingFiles) = 3
    /\ \A n \in 1..3 : stagingFiles[n].conn = "c1"
    /\ ~stagingFiles[1].useRudderStorage
    /\ stagingFiles[2].useRudderStorage /\ stagingFiles[3].useRudderStorage
    /\ passesInRun["c1"] = 1
    /\ \E i \in DOMAIN uploads :
          /\ i + 1 \in DOMAIN uploads
          /\ uploads[i].start = 1 /\ uploads[i].end = 1
          /\ uploads[i + 1].start = 2 /\ uploads[i + 1].end = 3

\* The connection's row with the greatest id is waiting and in no in-progress list.
LatestIsUnclaimedWaiting(c) ==
    /\ ConnRows(uploads, c) # {}
    /\ uploads[Max(ConnRows(uploads, c))].status = Waiting
    /\ Max(ConnRows(uploads, c)) \notin InFlight

SelectedNow ==
    Elems(SelectedRows(uploads, noOfWorkers - activeWorkerCount, getInProgressNamespaces,
                       degradedWorkspaces, now))

\* C13 (unknown-connection abort): a row the tick's selection returns whose
\* connection is not in the registry is set to aborted with the error "unable to find
\* source", is not among the jobs the tick hands to the sends and is appended to no
\* in-progress list; and no tick's selection returns a row that was aborted so.
C13_UnknownConnectionAbort ==
    [][IsTick =>
          /\ \A i \in SelectedNow :
                warehouses[uploads[i].conn] = NoNamespace =>
                    /\ uploads'[i].status = Aborted
                    /\ uploads'[i].error = UnableToFindSource
                    /\ i \notin Claimed'
                    /\ \A k \in Identifiers :
                          \A n \in (Len(inProgressMap[k]) + 1)..Len(inProgressMap'[k]) :
                              inProgressMap'[k][n] # i
          /\ \A i \in SelectedNow : uploads[i].error # UnableToFindSource]_vars

\* C14 (manual-trigger priority): every row a pass inserts while the connection's
\* manual trigger is set has priority 50, also when the pass carries the priority of
\* a deleted waiting row; without a trigger a row takes the carried priority when
\* that is not 0.
C14_ManualTriggerPriority ==
    [][\A c \in Conns :
          Inserts(c) =>
              \A i \in InsertedIds :
                  IF c \in triggerUploadsMap
                  THEN Priority(uploads'[i]) = TriggeredPriority
                  ELSE creator[c].priority # 0 =>
                           Priority(uploads'[i]) = creator[c].priority]_vars

\* A pass of the creator for c returns in this step.
PassReturns(c) == creator[c].pc # "done" /\ creator'[c].pc = "done"

C16_ShutdownOrdering ==
    /\ closed # {} => "runUploadJobAllocator" \in exited
    /\ \A k \in Identifiers :
          terminated[k] > 0 => (k \in closed /\ workerChannelMap[k] = <<>>)
    /\ shutdownPc = "returned" =>
          /\ Tasks \subseteq exited
          /\ \A k \in channels :
                /\ running[k] = <<>>
                /\ terminated[k] = maxConcurrentUploadJobs

\* C17 (router supervisor): over any sequence of snapshots at most one router is
\* constructed and Setup per warehouse type, a type that has a router keeps it, and
\* after a snapshot has been processed a router is enabled if its type is among the
\* snapshot's destination types and disabled if it is not.
C17_RouterSupervisor ==
    [][\A t \in WarehouseDestinations :
          /\ setupCalls'[t] <= 1
          /\ dstToWhRouter[t] # "none" => dstToWhRouter'[t] # "none"
          /\ dstToWhRouter'[t] # "none" =>
                 /\ setupCalls'[t] = 1
                 /\ dstToWhRouter'[t] = "enabled" <=> t \in Elems(lastSnapshot')]_vars

\* After a snapshot with two destinations of one warehouse type and one of another
\* kind: that type's router is enabled, an earlier router is disabled, a third type
\* never had one.
C17_Witness ==
    /\ lastSnapshot = <<"BQ", "WEBHOOK", "BQ">>
    /\ dstToWhRouter["BQ"] = "enabled"
    /\ dstToWhRouter["RS"] = "disabled"
    /\ dstToWhRouter["SNOWFLAKE"] = "none"
    /\ setupCalls["BQ"] = 1 /\ setupCalls["RS"] = 1

\* The creator deletes or inserts a row in this step.
CreatorWrites ==
    \/ nextJobId' > nextJobId
    \/ \E i \in DOMAIN uploads : i \notin DOMAIN uploads'

\* C18 as the specification states it: while isEnabled is false the creator inserts
\* no row and deletes no waiting row.
C18_DisabledCreatesNothing ==
    [][~isEnabled => ~CreatorWrites]_vars

\* C18, amended: while isEnabled is false no mainLoop iteration can start (the
\* passes of an iteration that started before go on), whereas the allocator can tick
\* whenever its own conditions hold, a worker can receive a buffered job and a
\* worker's run can return; with isEnabled true an iteration can start again.
C18_DisableStopsNewIterations ==
    /\ ~isEnabled =>
          /\ ~ENABLED MainLoop
          /\ (/\ phase = "running" /\ initialConfigFetched /\ allocPc = "idle"
              /\ noOfWorkers - activeWorkerCount >= 1
              /\ \A k \in Identifiers : Len(inProgressMap[k]) < MaxInFlight)
                 => ENABLED AllocatorTick
          /\ \A k \in channels :
                /\ (/\ phase = "running" /\ workerChannelMap[k] # <<>>
                    /\ Len(running[k]) < maxConcurrentUploadJobs)
                       => ENABLED WorkerReceive(k)
                /\ (phase = "running" /\ running[k] # <<>>)
                       => ENABLED WorkerDone(k, 1, ExportedData, 0)
    /\ (/\ phase = "running" /\ isEnabled
        /\ \A c \in Conns : creator[c].pc = "done"
        /\ \E c \in Conns : warehouses[c] # NoNamespace) => ENABLED MainLoop

\* The router is disabled, a pass that started before Disable() has inserted a row,
\* the allocator has claimed it and a worker runs it.
C18_Witness ==
    /\ ~isEnabled
    /\ lastCall = NoCall
    /\ passesInRun["c1"] = 1
    /\ \E k \in channels : running[k] # <<>>
    /\ activeWorkerCount > 0
    /\ InFlight # {}

\* C19 (marker on an empty fetch): a pass that has passed the gate and returns from
\* the fetch with no pending staging file leaves the connection's last-processed
\* marker at now, plus jitter when enabled.
C19_MarkerOnEmptyFetch ==
    [][\A c \in Conns :
          (/\ creator[c].pc = "fetch" /\ creator'[c].pc = "done"
           /\ phase' = "running"
           /\ Len(getPendingStagingFiles(uploads, stagingFiles, c)) = 0) =>
              /\ lastProcessedMarkerMap'[c] >= now
              /\ lastProcessedMarkerMap'[c] <= now + MaxJitter]_vars

\* C20 (no lock across a send): while the allocator is performing, or blocked in, a
\* send on a worker channel it does not hold wh.workerChannelMapLock (the other
\* scheduler locks are released before the send loop begins).
C20_NoLockWhileSending ==
    allocPc = "sending" => workerChannelMapLock # "allocator"

\* C21 (the creator never deletes a claimed job): in every step that deletes a row of
\* wh_uploads, the row was waiting and its id was in no list of the in-progress
\* index when it was deleted.
C21_NoDeleteOfClaimed ==
    [][\A i \in DOMAIN uploads :
          i \notin DOMAIN uploads' =>
              /\ uploads[i].status = Waiting
              /\ i \notin InFlight]_vars

\* Occurrences of a job id in a list of job ids.
Count(seq, id) == Cardinality({n \in DOMAIN seq : seq[n] = id})

\* The claimed jobs of the current tick that wait for their send, by identifier.
Unsent(k) == {n \in DOMAIN uploadJobsToProcess : uploadJobsToProcess[n].identifier = k}

\* Every entry of the in-progress index is a job on its way to a worker, in a channel
\* or run by a worker, and the counter counts the workers that run a job.
IndexAccounted ==
    /\ \A k \in Identifiers, id \in 1..MaxJobId :
          Count(inProgressMap[k], id) =
              Cardinality({n \in Unsent(k) : uploadJobsToProcess[n].id = id})
              + Count(workerChannelMap[k], id) + Count(running[k], id)
    /\ activeWorkerCount = Cardinality({<<k, n>> \in Identifiers \X (1..MaxConcurrent) :
                                           n \in DOMAIN running[k]})

RegistryIdentifiers(registry) ==
    {workerIdentifier(c, registry[c]) : c \in {d \in Conns : registry[d] # NoNamespace}}

\* C23 (worker channels are made once): within a run, initWorker is called at most
\* once for an identifier, in the step of the first snapshot that has a connection
\* with that identifier, and never for an identifier that has a channel; after a
\* snapshot every identifier of the registry has a channel; an identifier that has a
\* channel keeps it, also when no connection of the registry has it any more; a pool
\* has no more than maxConcurrentUploadJobs workers; and no channel is closed before
\* Shutdown() has cancelled the context.
C23_ChannelsCreatedOnce ==
    [][(phase = "running" /\ phase' = "running") =>
          /\ \A k \in Identifiers :
                /\ initWorkerCalls'[k] <= 1
                /\ k \in channels' <=> initWorkerCalls'[k] = 1
                /\ k \in channels => (k \in channels' /\ initWorkerCalls'[k] = initWorkerCalls[k])
                /\ initWorkerCalls'[k] > initWorkerCalls[k] =>
                       /\ k \notin channels
                       /\ k \in RegistryIdentifiers(warehouses')
                /\ Len(running'[k]) + terminated'[k] <= maxConcurrentUploadJobs
          /\ RegistryIdentifiers(warehouses') \subseteq channels'
          /\ closed' # {} => ctxDone']_vars

\* Three snapshots later: c1 was in namespace n1 and in n2 and is now in none, c2 is
\* in n2; the identifiers d1_n1 and d1_n2 both have their channel, made once, and
\* none is closed.
C23_Witness ==
    /\ ~multiSource
    /\ warehouses = [c \in Conns |-> IF c = "c1" THEN NoNamespace ELSE "n2"]
    /\ channels = {<<"", "d1", "n1">>, <<"", "d1", "n2">>}
    /\ \A k \in channels : initWorkerCalls[k] = 1
    /\ InFlight # {}
    /\ closed = {}

\* A row of connection c is deleted in this step.
Deletes(c) == \E i \in ConnRows(uploads, c) : i \notin DOMAIN uploads'

\* C24 (crash-recovery gate): a pass for a connection whose destination is in the
\* interrupted set goes through CrashRecover first; when that fails the pass
\* returns, inserts and deletes nothing and the set stays as it is; when it succeeds
\* the destination leaves the set.  A destination leaves the set only by a
\* CrashRecover that succeeded, and no pass inserts or deletes a row for a connection
\* whose destination is in the set.
C24_CrashRecoveryGate ==
    [][(phase = "running" /\ phase' = "running") =>
          /\ inRecoveryMap' \cap crashRecovered' = {}
          /\ \A c \in Conns :
                /\ (/\ creator[c].pc = "start" /\ creator'[c].pc # "start"
                    /\ DestOf(c) \in inRecoveryMap) =>
                       IF DestOf(c) \in crashRecovered'
                       THEN DestOf(c) \notin inRecoveryMap'
                       ELSE /\ inRecoveryMap' = inRecoveryMap
                            /\ creator'[c].pc = "done"
                            /\ uploads' = uploads
                            /\ nextJobId' = nextJobId
                /\ (DestOf(c) \in inRecoveryMap /\ DestOf(c) \notin inRecoveryMap') =>
                       DestOf(c) \in crashRecovered'
                /\ Inserts(c) => DestOf(c) \notin inRecoveryMap
                /\ Deletes(c) => DestOf(c) \notin inRecoveryMap']_vars

\* After a restart with a job of c1 in the export phase: a CrashRecover of the
\* destination has succeeded, the set is empty, no pass of this run has inserted for
\* c1 and one has inserted a job for c2.
C24_Witness ==
    /\ phase = "running"
    /\ "d1" \in crashRecovered
    /\ inRecoveryMap = {}
    /\ creator["c1"].pc = "done"
    /\ passesInRun["c1"] = 0
    /\ passesInRun["c2"] = 1
    /\ \E i \in DOMAIN uploads : uploads[i].conn = "c1" /\ uploads[i].status = ExportingData

\* The destinations of the rows that are in progress in the export phase: status
\* exporting_data or exporting_data_failed with in_progress = true.
InterruptedRows(rows) ==
    {DestOf(rows[i].conn) : i \in {j \in DOMAIN rows :
        /\ rows[j].in_progress
        /\ rows[j].status \in {ExportingData, ExportingDataFailed}}}

\* C25 (recovery ordering): Setup computes the interrupted set from the rows as the
\* stopped process left them and clears the in_progress flags only afterwards: for
\* a router of a crash-recovery type the first step puts exactly the destinations of
\* the rows in progress in the export phase into the set and changes no row, and the
\* second step clears every flag and leaves the set alone, so each of those
\* destinations is in the set when Setup is over; for a router of another type Setup
\* adds nothing to the set.
C25_RecoveryOrdering ==
    [][/\ (phase = "stopped" /\ phase' = "recovering") =>
             /\ uploads' = uploads
             /\ inRecoveryMap' = inRecoveryMap \cup
                    (IF destType \in crashRecoverWarehouses
                     THEN InterruptedRows(uploads) ELSE {})
       /\ (phase = "recovering" /\ phase' = "running") =>
             /\ inRecoveryMap' = inRecoveryMap
             /\ destType \in crashRecoverWarehouses =>
                    InterruptedRows(uploads) \subseteq inRecoveryMap'
             /\ destType \notin crashRecoverWarehouses => inRecoveryMap' = {}
             /\ \A i \in DOMAIN uploads' : ~uploads'[i].in_progress]_vars

\* Setup of an RS router is over after a stop that left a failed export in progress:
\* the destination is in the interrupted set and no row is in progress.
C25_Witness ==
    /\ destType = "RS"
    /\ phase = "running"
    /\ ~initialConfigFetched
    /\ inRecoveryMap = {"d1"}
    /\ \E i \in DOMAIN uploads : uploads[i].status = ExportingDataFailed
    /\ \A i \in DOMAIN uploads : ~uploads[i].in_progress /\ uploads[i].status # ExportingData

\* The allocator acts in this step: it makes its selection, appends to an
\* in-progress list, writes a row's abort, or appends to a worker channel.
AllocatorActs ==
    \/ uploadJobsToProcess' # uploadJobsToProcess
    \/ allocPc' # allocPc
    \/ \E k \in Identifiers :
          \/ Len(inProgressMap'[k]) > Len(inProgressMap[k])
          \/ Len(workerChannelMap'[k]) > Len(workerChannelMap[k])
    \/ \E i \in DOMAIN uploads :
          i \in DOMAIN uploads' /\ uploads'[i].status = Aborted /\ uploads[i].status # Aborted

\* C26 (the allocator waits for the first snapshot): within a run the allocator
\* claims nothing and sends nothing while initialConfigFetched is false; the flag
\* becomes true only when the first snapshot has been applied, that is with the
\* snapshot's connections in the registry and a channel for each of their
\* identifiers; and once true it stays true.
C26_AllocatorWaitsForConfig ==
    [][(phase = "running" /\ phase' = "running") =>
          /\ AllocatorActs => initialConfigFetched
          /\ (~initialConfigFetched /\ initialConfigFetched') =>
                /\ warehouses' # NoWarehouses
                /\ RegistryIdentifiers(warehouses') \subseteq channels'
          /\ initialConfigFetched => initialConfigFetched']_vars

\* In the second run of the process the first snapshot has been applied and the flag
\* set, and the allocator has then claimed a job that the first run had left behind.
C26_Witness ==
    /\ phase = "running"
    /\ initialConfigFetched
    /\ allocPc = "send"
    /\ passesInRun["c1"] = 0
    /\ \E id \in Claimed : id \in DOMAIN uploads /\ uploads[id].status = ExportingDataFailed

\* The entries a step appends to the in-progress index.
NewIndexEntries ==
    {<<k, n>> \in Identifiers \X (1..MaxInFlight) :
        n \in DOMAIN inProgressMap'[k] /\ n \notin DOMAIN inProgressMap[k]}

\* C27 (a tick claims within the available workers): a tick runs only with
\* noOfWorkers - activeWorkerCount >= 1 and claims, and appends to the index, no
\* more jobs than that difference as it was when the tick began; while the
\* difference is below 1 the allocator between ticks claims nothing, writes nothing
\* and appends nothing to the index.
C27_ClaimsWithinAvailableWorkers ==
    [][/\ IsTick =>
             /\ noOfWorkers - activeWorkerCount >= 1
             /\ Len(uploadJobsToProcess') <= noOfWorkers - activeWorkerCount
             /\ Cardinality(NewIndexEntries) <= noOfWorkers - activeWorkerCount
       /\ (phase = "running" /\ allocPc = "idle" /\ noOfWorkers - activeWorkerCount < 1) =>
             /\ ~AllocatorActs
             /\ NewIndexEntries = {}]_vars

\* With one worker, idle, a tick has claimed one job although a selectable job of
\* another partition was there too.
C27_Witness ==
    /\ noOfWorkers = 1
    /\ activeWorkerCount = 0
    /\ allocPc = "send"
    /\ Len(uploadJobsToProcess) = 1
    /\ \E i \in DOMAIN uploads \ (Claimed \cup InFlight) :
          /\ uploads[i].status = Waiting
          /\ ~uploads[i].in_progress
          /\ warehouses[uploads[i].conn] # NoNamespace
          /\ \A id \in Claimed :
                partitionIdentifier(uploads[i]) # partitionIdentifier(uploads[id])

\* C28 (first of the partition): every job a tick claims passes the selection's
\* filter and comes before every other row of its partition that passes it, in
\* (priority, id) order; and no two jobs of one tick are of the same partition.
C28_FirstOfPartition ==
    [][IsTick =>
          /\ \A id \in Claimed' :
                /\ id \in SelectableNow
                /\ \A X \in SelectableNow \ {id} :
                      partitionIdentifier(uploads[X]) = partitionIdentifier(uploads[id])
                          => Before(uploads, id, X)
          /\ \A m \in DOMAIN uploadJobsToProcess', n \in DOMAIN uploadJobsToProcess' :
                m # n => partitionIdentifier(uploads[uploadJobsToProcess'[m].id])
                             # partitionIdentifier(uploads[uploadJobsToProcess'[n].id])]_vars

\* A tick has claimed a triggered job (priority 50) of a partition in which an older
\* job with the default priority, failed and not in progress, is still to be done.
C28_Witness ==
    /\ allocPc = "send"
    /\ \E id \in Claimed, i \in DOMAIN uploads :
          /\ id \in DOMAIN uploads
          /\ i < id
          /\ i \notin Claimed \cup InFlight
          /\ partitionIdentifier(uploads[i]) = partitionIdentifier(uploads[id])
          /\ Priority(uploads[id]) = TriggeredPriority
          /\ Priority(uploads[i]) = DefaultPriority
          /\ uploads[i].status = ExportingDataFailed
          /\ ~uploads[i].in_progress

\* C29 (selection error): a tick in which the selection returns an error leaves the
\* allocator panicked, with the in-progress index, the jobs of the tick and the
\* worker channels as they were; and a panicked allocator stays so until the process
\* ends, during which no identifier's in-progress list or channel grows.
C29_SelectErrorPanics ==
    [][/\ lastCall'[1] = "selectError" =>
             /\ allocPc' = "panicked"
             /\ inProgressMap' = inProgressMap
             /\ workerChannelMap' = workerChannelMap
             /\ uploadJobsToProcess' = <<>>
       /\ allocPc = "panicked" =>
             /\ ~IsTick
             /\ allocPc' = "panicked" \/ phase' = "stopped"
             /\ \A k \in Identifiers :
                   /\ Len(inProgressMap'[k]) <= Len(inProgressMap[k])
                   /\ Len(workerChannelMap'[k]) <= Len(workerChannelMap[k])]_vars

\* The allocator has panicked in a tick whose selection had set a job without a
\* connection to aborted and then failed at a job that has one; the second job is
\* neither aborted nor in the index nor in a channel.
C29_Witness ==
    /\ allocPc = "panicked"
    /\ lastCall[1] = "selectError"
    /\ \E i \in DOMAIN uploads, j \in DOMAIN uploads :
          /\ uploads[i].status = Aborted
          /\ uploads[i].error = UnableToFindSource
          /\ uploads[j].status = Waiting
          /\ warehouses[uploads[j].conn] # NoNamespace
          /\ j \notin Claimed \cup InFlight
          /\ ~uploads[j].in_progress

\* The rows a tick may take as far as status and time go: not in progress, neither
\* exported nor aborted, retry time not after the tick, workspace not degraded,
\* partition not skipped.
Due ==
    {i \in DOMAIN uploads :
        /\ ~uploads[i].in_progress
        /\ uploads[i].status \notin {ExportedData, Aborted}
        /\ uploads[i].nextRetryTime <= now
        /\ uploads[i].workspace \notin degradedWorkspaces
        /\ partitionIdentifier(uploads[i]) \notin getInProgressNamespaces}

\* C30 (retry time): every job a tick claims has a retry time not after the time of
\* the tick; and when the due rows are no more than the available workers, every due
\* row with a connection that is the first of its partition is claimed, whatever its
\* non-terminal status.
C30_RetryTimeRespected ==
    [][IsTick =>
          /\ \A id \in Claimed' : uploads[id].nextRetryTime <= now
          /\ Cardinality(Due) <= noOfWorkers - activeWorkerCount =>
                \A i \in Due :
                    (/\ warehouses[uploads[i].conn] # NoNamespace
                     /\ \A j \in Due \ {i} :
                           partitionIdentifier(uploads[j]) = partitionIdentifier(uploads[i])
                               => Before(uploads, i, j))
                        => i \in Claimed']_vars

\* A tick has claimed a failed job whose retry time, set ahead of the failure, has
\* been reached by the clock.
C30_Witness ==
    /\ allocPc = "send"
    /\ \E id \in Claimed :
          /\ uploads[id].status = ExportingDataFailed
          /\ uploads[id].nextRetryTime >= 1
          /\ uploads[id].nextRetryTime <= now

\* The cursor of getPendingStagingFiles and the greatest end of the connection's rows.
CursorById(c) ==
    IF ConnRows(uploads, c) = {} THEN 0 ELSE uploads[Max(ConnRows(uploads, c))].end

MaxEnd(c) ==
    IF ConnRows(uploads, c) = {} THEN 0
    ELSE Max({uploads[i].end : i \in ConnRows(uploads, c)})

\* C31 (staging-file cursor): in every reachable state, for every connection, the
\* end of its row with the greatest id (0 without rows) is the greatest end of its
\* rows (0 without rows).
C31_CursorIsMaxEnd ==
    \A c \in Conns : CursorById(c) = MaxEnd(c)

\* A connection has two rows, the older one exported and the newer one inserted
\* after a job between them was deleted, and a pass is about to fetch with the
\* cursor.
C31_Witness ==
    \E c \in Conns, i \in DOMAIN uploads, j \in DOMAIN uploads :
        /\ i < j
        /\ uploads[i].conn = c
        /\ uploads[j].conn = c
        /\ uploads[i].status = ExportedData
        /\ \E g \in (i + 1)..(j - 1) : g \notin DOMAIN uploads
        /\ uploads[j].end > uploads[i].end
        /\ creator[c].pc = "fetch"
        /\ CursorById(c) = uploads[j].end

\* A job the selection may still take: its row exists with a status that is neither
\* exported nor aborted and its connection is in the registry.
Pending(b) ==
    /\ b \in DOMAIN uploads
    /\ uploads[b].status \notin {ExportedData, Aborted}
    /\ warehouses[uploads[b].conn] # NoNamespace

\* A worker is running the job.
Run(b) == \E k \in Identifiers : b \in Elems(running[k])

\* A run of the loader returns with a failure.
FailStep ==
    \E i \in DOMAIN uploads :
        /\ uploads[i].in_progress
        /\ i \in DOMAIN uploads'
        /\ ~uploads'[i].in_progress
        /\ uploads'[i].status = ExportingDataFailed

\* The job is the next of its partition: no other job of the partition that is
\* still to be done comes before it in (priority, id) order.
NextOfPartition(b) ==
    /\ Pending(b)
    /\ \A a \in DOMAIN uploads \ {b} :
          (Pending(a) /\ partitionIdentifier(uploads[a]) = partitionIdentifier(uploads[b]))
              => Before(uploads, b, a)

CreatorReadsIndex(c) ==
    /\ creator[c].pc = "start"
    /\ creator'[c].pc = "fetch"
    /\ getLatestUploadStatus(uploads, c).status = Waiting

\* C33 (lock discipline of the in-progress index): the creator's is-in-progress check
\* never happens while a worker is inside removeDestInProgress, holding
\* inProgressMapLock.
C33_IndexReadUnderLock ==
    [][\A c \in Conns : CreatorReadsIndex(c) => inProgressMapLock = NoHolder]_vars

\* C34 (atomic snapshots): the list a reader of wh.warehouses observes is the empty
\* list of a router without configuration or a whole snapshot, never a part of one.
C34_ReadersSeeWholeSnapshots ==
    trackedWarehouses \in {NoWarehouses} \cup SnapshotsOffered

\* C35 (bounded in-flight work): in every reachable state the jobs the allocator has
\* claimed and no worker has finished (in the in-progress index), and the
\* active-worker counter, are no more than noOfWorkers.
C35_InFlightWithinWorkers ==
    /\ Cardinality(InFlight) <= noOfWorkers
    /\ activeWorkerCount <= noOfWorkers

\* C36 (one key on both sides): every job in the in-progress index is recorded under
\* the partition key the selection computes from the job's own row, so that the
\* jobs of its partition stay excluded while it is in flight, also after a config
\* snapshot has changed the connection's namespace.
C36_IndexKeyIsPartitionKey ==
    \A k \in Identifiers : \A id \in Elems(inProgressMap[k]) \cap DOMAIN uploads :
        partitionIdentifier(uploads[id]) = k

\* ------------------------------------------------------------- C37
\* createJobs, step 1, in two steps.  The goroutine of a connection finds its
\* destination in inRecoveryMap and calls the loader's CrashRecover; no lock is held.
CrashRecoverBegin(c) ==
    /\ phase = "running"
    /\ creator[c].pc = "start"
    /\ DestOf(c) \in inRecoveryMap
    /\ creator' = [creator EXCEPT ![c].pc = "recover"]
    /\ lastCall' = NoCall
    /\ UNCHANGED <<phase, isEnabled, initialConfigFetched, multiSource, stagingFilesBatchSize,
                   maxConcurrentUploadJobs, noOfWorkers, warehouses, workerChannelMap, channels,
                   inProgressMap, activeWorkerCount, running, allocPc,
                   uploadJobsToProcess, mapVars, dbVars, envVars, histVars>>
    /\ UNCHANGED <<taskVars, supervisorVars>>

\* CrashRecover returns: with an error the pass returns; without one the destination
\* is deleted from inRecoveryMap and the pass goes on with the frequency gate.
CrashRecoverEnd(c, recovered) ==
    /\ phase = "running"
    /\ creator[c].pc = "recover"
    /\ IF recovered
       THEN /\ inRecoveryMap' = inRecoveryMap \ {DestOf(c)}
            /\ crashRecovered' = crashRecovered \cup {DestOf(c)}
            /\ creator' = [creator EXCEPT ![c].pc = "start"]
       ELSE /\ creator' = [creator EXCEPT ![c] = NoJob]
            /\ UNCHANGED <<inRecoveryMap, crashRecovered>>
    /\ lastCall' = NoCall
    /\ UNCHANGED <<phase, isEnabled, initialConfigFetched, multiSource, stagingFilesBatchSize,
                   maxConcurrentUploadJobs, noOfWorkers, warehouses, workerChannelMap, channels,
                   inProgressMap, activeWorkerCount, running, allocPc,
                   uploadJobsToProcess, triggerUploadsMap, lastProcessedMarkerMap,
                   dbVars, envVars, allocTicked, lastCreatedAt, passesInRun,
                   initWorkerCalls>>
    /\ UNCHANGED <<taskVars, supervisorVars>>

\* Two connections of one destination, jobs that are in the export phase when the
\* process stops, and the passes of one mainLoop iteration with CrashRecover as a
\* call that takes time.  maxConcurrentUploadJobs is 1, batch size 1, the clock
\* stands still.
InitParallel == InitWith({FALSE}, {1}, {1}, {MaxWorkers})

NextParallel ==
    \/ SetupInterrupted
    \/ SetupReset
    \/ Crash
    \/ \E c \in Conns : AddStagingFile(c, TRUE)
    \/ /\ ~initialConfigFetched
       /\ BackendConfigSubscriber([c \in Conns |-> "n1"])
    \/ MainLoop
    \/ \E c \in Conns : CrashRecoverBegin(c)
    \/ \E c \in Conns, recovered \in BOOLEAN : CrashRecoverEnd(c, recovered)
    \/ \E c \in Conns : DestOf(c) \notin inRecoveryMap /\ CreateJobsGate(c, TRUE)
    \/ \E c \in Conns : CreateJobsInsert(c, FALSE, 0)
    \/ AllocatorTick
    \/ AllocatorSend
    \/ \E k \in Identifiers : WorkerReceive(k)
    \/ \E k \in Identifiers : WorkerExport(k, 1)

SpecParallel == InitParallel /\ [][NextParallel]_vars

\* The goroutine of c calls CrashRecover in this step.
InvokesCrashRecover(c) == creator[c].pc = "start" /\ creator'[c].pc = "recover"

\* C37 (one CrashRecover per interrupted destination): when the goroutine of a
\* connection calls CrashRecover, no goroutine of another connection of the same
\* destination is inside CrashRecover, and no CrashRecover of that destination has
\* succeeded in this run.
C37_CrashRecoverOnce ==
    [][\A c \in Conns :
          InvokesCrashRecover(c) =>
              /\ \A d \in Conns \ {c} :
                    DestOf(d) = DestOf(c) => creator[d].pc # "recover"
              /\ DestOf(c) \notin crashRecovered]_vars

\* ------------------------------------------------------------- C38
\* The staging files of a connection, and the rows of the connection whose range
\* holds a staging file.
FilesOf(c) == {f \in DOMAIN stagingFiles : stagingFiles[f].conn = c}

CoveringRows(rows, c, f) ==
    {i \in ConnRows(rows, c) : rows[i].start <= f /\ f <= rows[i].end}

CoveredUpToMaxEnd ==
    \A c \in Conns : \A f \in FilesOf(c) :
        f <= MaxEnd(c) => Cardinality(CoveringRows(uploads, c, f)) = 1

\* C38 (delete-and-recreate loses nothing): in every state each staging file of a
\* connection up to the greatest end of the connection's rows is in the range of
\* exactly one of its rows; the row a pass deletes is waiting and its files lie
\* after the greatest end that is left, so they are the only files without a row;
\* and when a pass completes its inserts every staging file of the connection,
\* those of a deleted job included, is in the range of exactly one row again.
C38_DeleteAndRecreate ==
    [][/\ CoveredUpToMaxEnd'
       /\ \A c \in Conns :
             /\ Deletes(c) =>
                   \A i \in ConnRows(uploads, c) \ DOMAIN uploads' :
                       /\ uploads[i].status = Waiting
                       /\ uploads[i].start > MaxEnd(c)'
             /\ Inserts(c) =>
                   \A f \in FilesOf(c) :
                       Cardinality(CoveringRows(uploads', c, f)) = 1]_vars

\* A pass has completed after it deleted the waiting job before the connection's
\* latest row: the latest row holds two staging files of the connection, and every
\* staging file of the connection is in the range of one row.
C38_Witness ==
    \E c \in Conns, j \in DOMAIN uploads :
        /\ uploads[j].conn = c
        /\ j = Max(ConnRows(uploads, c))
        /\ j > 1
        /\ (j - 1) \notin DOMAIN uploads
        /\ creator[c].pc = "done"
        /\ Cardinality({f \in FilesOf(c) : f \in uploads[j].start..uploads[j].end}) = 2
        /\ \A f \in FilesOf(c) : Cardinality(CoveringRows(uploads, c, f)) = 1

\* ------------------------------------------------------------- C39
\* The tasks of a running router with their locks, before Shutdown(): the subscriber
\* applies snapshots statement by statement under configSubscriberLock and takes
\* wh.workerChannelMapLock for every connection; the supervisor's Enable() and
\* Disable(), the creator passes and the allocator's tick wait for
\* configSubscriberLock; the allocator sends job by job under
\* wh.workerChannelMapLock on channels with a buffer of ChannelCapacity; the workers
\* end a job under wh.inProgressMapLock, for which the tick waits.
\* Connection c1 is registered in namespace n1 and moves to n2;
\* maxConcurrentUploadJobs is 2, so that a second job of an identifier is sent while
\* the first is still in the channel; Enable() comes for a disabled router and
\* Disable() for an enabled one.
InitLive == InitWith({FALSE}, {MaxConcurrent}, {1}, {MaxWorkers})

NextLive ==
    \/ SetupInterrupted
    \/ SetupReset
    \/ /\ Len(stagingFiles) < 2
       /\ AddStagingFile("c1", TRUE)
    \/ /\ ~initialConfigFetched
       /\ BackendConfigLock([c \in Conns |-> IF c = "c1" THEN "n1" ELSE NoNamespace])
    \/ /\ warehouses = [c \in Conns |-> IF c = "c1" THEN "n1" ELSE NoNamespace]
       /\ BackendConfigLock([c \in Conns |-> IF c = "c1" THEN "n2" ELSE NoNamespace])
    \/ BackendConfigAppend
    \/ BackendConfigUnlock
    \/ configSubscriberLock = NoHolder /\ ~isEnabled /\ Enable
    \/ configSubscriberLock = NoHolder /\ isEnabled /\ Disable
    \/ \E c \in Conns : /\ configSubscriberLock = NoHolder
                        /\ CreateJobs(c, 0)
    \/ /\ configSubscriberLock = NoHolder
       /\ inProgressMapLock = NoHolder
       /\ AllocatorTick
    \/ AllocatorSendLock
    \/ AllocatorSendOne
    \/ AllocatorSendEnd
    \/ \E k \in Identifiers : WorkerReceive(k)
    \/ \E k \in Identifiers, idx \in 1..MaxConcurrent : WorkerReturn(k, idx, ExportedData)
    \/ \E k \in Identifiers : WorkerRemoved(k)

\* The identifiers that get a channel in single-source mode.
LiveIdentifiers == {<<"", DestOf(c), n>> : c \in Conns, n \in Namespaces}

\* Scheduling: a goroutine that can run does run, a goroutine waiting for a mutex
\* gets it when it is released again and again (sync.Mutex is starvation-free), and
\* every run of the loader returns.
SpecLive ==
    /\ InitLive
    /\ [][NextLive]_vars
    /\ SF_vars(BackendConfigAppend)
    /\ WF_vars(BackendConfigUnlock)
    /\ WF_vars(AllocatorSendLock)
    /\ WF_vars(AllocatorSendOne)
    /\ WF_vars(AllocatorSendEnd)
    /\ \A k \in LiveIdentifiers : WF_vars(WorkerReceive(k))
    /\ \A k \in LiveIdentifiers :
          SF_vars(\E idx \in 1..MaxConcurrent : WorkerReturn(k, idx, ExportedData))
    /\ \A k \in LiveIdentifiers : WF_vars(WorkerRemoved(k))

\* Every job the allocator has claimed and not yet sent has a channel in
\* wh.workerChannelMap.
ClaimedJobsHaveChannel ==
    \A n \in DOMAIN uploadJobsToProcess : uploadJobsToProcess[n].identifier \in channels

\* C39 (deadlock freedom): the allocator never has a job to send whose identifier
\* has no channel; a send under wh.workerChannelMapLock completes and the send loop
\* ends; the subscriber, which waits for wh.workerChannelMapLock while it holds
\* configSubscriberLock, releases configSubscriberLock, so that the supervisor, the
\* creator and the tick waiting for it go on; and wh.inProgressMapLock is released.
C39_DeadlockFreedom ==
    /\ []ClaimedJobsHaveChannel
    /\ (allocPc = "sending") ~> (allocPc = "send")
    /\ (allocPc = "send") ~> (allocPc = "idle")
    /\ (configSubscriberLock # NoHolder) ~> (configSubscriberLock = NoHolder)
    /\ (inProgressMapLock # NoHolder) ~> (inProgressMapLock = NoHolder)

\* The allocator holds wh.workerChannelMapLock and is blocked on a send to a full
\* channel while the subscriber, holding configSubscriberLock with a connection
\* still to append, waits for wh.workerChannelMapLock.
C39_Witness ==
    /\ allocPc = "sending"
    /\ workerChannelMapLock = "allocator"
    /\ Len(workerChannelMap[Head(uploadJobsToProcess).identifier]) = ChannelCapacity
    /\ configSubscriberLock # NoHolder
    /\ configSubscriberLock[2] <= Len(SnapshotConns(configSubscriberLock[1]))

\* ------------------------------------------------------------- C40
\* A job is sent on the channel of k in this step; the channel of k is closed in
\* this step.
SendsOn(k) == Len(workerChannelMap'[k]) > Len(workerChannelMap[k])

Closes(k) == k \in closed' /\ k \notin closed

\* C40 (no send after close, no second close): within a run, a job is sent on a
\* channel only by the allocator inside its loop and only while the channel is
\* open; a channel is closed only in the step in which the allocator, with no job
\* left to send, leaves its loop for good, and it was open before; a closed channel
\* stays closed; and a channel made after the allocator has closed the channels
\* never holds a job.
C40_NoSendAfterClose ==
    [][(phase = "running" /\ phase' = "running") =>
          /\ \A k \in Identifiers :
                /\ SendsOn(k) =>
                      /\ k \in channels \ closed
                      /\ "runUploadJobAllocator" \notin exited
                      /\ allocPc \in {"send", "sending"}
                /\ Closes(k) =>
                      /\ "runUploadJobAllocator" \notin exited
                      /\ "runUploadJobAllocator" \in exited'
                      /\ allocPc = "idle"
                      /\ uploadJobsToProcess = <<>>
                /\ (k \in channels' /\ k \notin channels
                       /\ "runUploadJobAllocator" \in exited) =>
                      workerChannelMap'[k] = <<>>
                /\ (k \in channels \ closed /\ "runUploadJobAllocator" \in exited) =>
                      workerChannelMap'[k] = <<>>
          /\ closed \subseteq closed'
          /\ "runUploadJobAllocator" \in exited => "runUploadJobAllocator" \in exited']_vars

\* The allocator has sent a job, left its loop and closed the channels; the job is
\* still in its closed channel or with a worker, and a later snapshot has made a
\* channel for another identifier, which is open and empty.
C40_Witness ==
    /\ "runUploadJobAllocator" \in exited
    /\ \E k \in closed : workerChannelMap[k] # <<>> \/ running[k] # <<>>
    /\ \E k \in channels \ closed : workerChannelMap[k] = <<>>

====
